---- MODULE Spec2Model ----
(***************************************************************************)
(* Morse code translator and audio generator (src/morsecode).              *)
(*                                                                         *)
(* A text is a sequence of one-character strings.  A character that is not *)
(* ASCII is written by its code point ("U+017C"), and so is the backquote. *)
(* The text of the audio status entry is the sequence                      *)
(* <<AUDIO_READY_MESSAGE, " ", path>>, the path being one element.         *)
(***************************************************************************)
EXTENDS Integers, Sequences, FiniteSets, TLC

(***************************************************************************)
(* Bounds of the model.                                                    *)
(***************************************************************************)
MaxPlainInput == 3
MaxMorseInput == 6
MaxFiles == 3
MaxWriters == 2

(***************************************************************************)
(* globals.py                                                              *)
(***************************************************************************)
MORSE_CODE_ITEMS ==
  << <<"A", <<".", "-">>>>, <<"B", <<"-", ".", ".", ".">>>>, <<"C", <<"-", ".", "-", ".">>>>,
     <<"D", <<"-", ".", ".">>>>, <<"E", <<".">>>>, <<"F", <<".", ".", "-", ".">>>>,
     <<"G", <<"-", "-", ".">>>>, <<"H", <<".", ".", ".", ".">>>>, <<"I", <<".", ".">>>>,
     <<"J", <<".", "-", "-", "-">>>>, <<"K", <<"-", ".", "-">>>>,
     <<"L", <<".", "-", ".", ".">>>>, <<"M", <<"-", "-">>>>, <<"N", <<"-", ".">>>>,
     <<"O", <<"-", "-", "-">>>>, <<"P", <<".", "-", "-", ".">>>>,
     <<"Q", <<"-", "-", ".", "-">>>>, <<"R", <<".", "-", ".">>>>, <<"S", <<".", ".", ".">>>>,
     <<"T", <<"-">>>>, <<"U", <<".", ".", "-">>>>, <<"V", <<".", ".", ".", "-">>>>,
     <<"W", <<".", "-", "-">>>>, <<"X", <<"-", ".", ".", "-">>>>,
     <<"Y", <<"-", ".", "-", "-">>>>, <<"Z", <<"-", "-", ".", ".">>>>,
     <<"0", <<"-", "-", "-", "-", "-">>>>, <<"1", <<".", "-", "-", "-", "-">>>>,
     <<"2", <<".", ".", "-", "-", "-">>>>, <<"3", <<".", ".", ".", "-", "-">>>>,
     <<"4", <<".", ".", ".", ".", "-">>>>, <<"5", <<".", ".", ".", ".", ".">>>>,
     <<"6", <<"-", ".", ".", ".", ".">>>>, <<"7", <<"-", "-", ".", ".", ".">>>>,
     <<"8", <<"-", "-", "-", ".", ".">>>>, <<"9", <<"-", "-", "-", "-", ".">>>>,
     <<".", <<".", "-", ".", "-", ".", "-">>>>, <<",", <<"-", "-", ".", ".", "-", "-">>>>,
     <<"'", <<".", "-", "-", "-", "-", ".">>>>, <<"\"", <<".", "-", ".", ".", "-", ".">>>>,
     <<"_", <<".", ".", "-", "-", ".", "-">>>>, <<":", <<"-", "-", "-", ".", ".", ".">>>>,
     <<";", <<"-", ".", "-", ".", "-", ".">>>>, <<"?", <<".", ".", "-", "-", ".", ".">>>>,
     <<"!", <<"-", ".", "-", ".", "-", "-">>>>, <<"-", <<"-", ".", ".", ".", ".", "-">>>>,
     <<"+", <<".", "-", ".", "-", ".">>>>, <<"/", <<"-", ".", ".", "-", ".">>>>,
     <<"(", <<"-", ".", "-", "-", ".">>>>, <<")", <<"-", ".", "-", "-", ".", "-">>>>,
     <<"=", <<"-", ".", ".", ".", "-">>>>, <<"@", <<".", "-", "-", ".", "-", ".">>>>,
     <<"$", <<".", ".", ".", "-", ".", ".", "-">>>>, <<"&", <<".", "-", ".", ".", ".">>>> >>

MORSE_CODE_KEYS == {MORSE_CODE_ITEMS[i][1] : i \in DOMAIN MORSE_CODE_ITEMS}

\* A dict literal keeps, for a repeated key, the last value given.
MORSE_CODE_DICT ==
  [c \in MORSE_CODE_KEYS |->
     LET last == CHOOSE i \in DOMAIN MORSE_CODE_ITEMS :
                    /\ MORSE_CODE_ITEMS[i][1] = c
                    /\ \A j \in DOMAIN MORSE_CODE_ITEMS :
                          MORSE_CODE_ITEMS[j][1] = c => j <= i
     IN  MORSE_CODE_ITEMS[last][2]]

DEFAULT_AUDIO_OUTPUT_DIR == "output"
DEFAULT_AUDIO_OUTPUT_FILE == "morse_code_audio.wav"
AUDIO_READY_MESSAGE == "READY:"

\* (the backquote of the list is written U+0060)
MESSAGEBOX_MSG_AUTO_CLEANUP_CONFIRM ==
  "Your input contains characters that are unsupported for audio generation (~U+0060<>\\|*^%@#). Would you like to proceed and have them removed automatically?"
MESSAGEBOX_MSG_COPY_SUCCESS == "The text has been successfully copied to your clipboard."
MESSAGEBOX_MSG_COPY_WARNING == "There is nothing to copy (yet)."
MESSAGEBOX_MSG_PLAY_WARNING == "There is nothing to play (yet)."
MESSAGEBOX_MSG_NOTHING_TO_TRANSLATE_WARNING == "There is nothing to translate (yet)."
MESSAGEBOX_MSG_TRANSLATE_TO_PLAIN_WARNING ==
  "You may only use the characters: .-/ and spaces in your Morse code input."
MESSAGEBOX_MSG_MEANINGLESS_INPUT_WARNING ==
  "The input contains a sequence of valid symbols, but they do not correspond to any Morse code symbol."
MESSAGEBOX_MSG_TO_MORSE_PERM_ERROR ==
  "The application doesn't have permission to save files to the current location (output)."
MESSAGEBOX_MSG_CLEAR_ALL_LACK_ARG_ERROR == "At least one argument must be passed to clear_all()."

\* The messages about an argument of the wrong type, cut at the names they
\* quote: the pieces of a message, one after the other, are its text.
MESSAGEBOX_MSG_CHANGE_ENTRY_WRONG_FIRST_ARG_ERROR ==
  <<"The first argument (", "entry_to_change", ") to ", "change_entry_text",
    "() must be an instance of tkinter.Entry.">>
MESSAGEBOX_MSG_CHANGE_ENTRY_WRONG_SECOND_ARG_ERROR ==
  <<"The second argument (", "change_to", ") to ", "change_entry_text",
    "() must be of type str.">>
MESSAGEBOX_MSG_CHANGE_FILEPATH_WRONG_ARG_ERROR ==
  <<"The argument (", "audio_status", ") to ", "change_most_recent_filepath",
    "() must be of type str. It is an empty string by default.">>
MESSAGEBOX_MSG_CLIPBOARD_WRONG_ARG_ERROR ==
  <<"The argument (", "text_to_copy", ") to ", "copy_to_clipboard", "() must be of type str.">>
MESSAGEBOX_MSG_CLEAR_ALL_WRONG_ARG_ERROR ==
  <<"Arguments to ", "clear_all", "() must all be instances of tkinter.Entry.">>
MESSAGEBOX_MSG_PLAY_WRONG_ARG_ERROR ==
  <<"The argument (", "audio_status", ") to ", "play_audio_file", "() must be of type str.">>
MESSAGEBOX_MSG_CREATE_AUDIO_FIRST_ARG_WRONG_ERROR ==
  <<"The first argument (", "normalized_text", ") to ", "create_audio_file",
    "() must be of type str.">>
MESSAGEBOX_MSG_CREATE_AUDIO_SECOND_ARG_WRONG_ERROR ==
  <<"The second argument (", "audio_status", ") to ", "create_audio_files",
    "() must an instance of tkinter.Entry.">>
MESSAGEBOX_MSG_TO_MORSE_FIRST_ARG_WRONG_ERROR ==
  <<"The first argument (", "user_plain_text", ") to ", "translate_to_morse_code",
    "() must be of type str.">>
MESSAGEBOX_MSG_TO_MORSE_SECOND_ARG_WRONG_ERROR ==
  <<"The second argument (", "audio_request", ") to ", "translate_to_morse_code",
    "() must be of type bool.">>
MESSAGEBOX_MSG_TO_MORSE_THIRD_ARG_WRONG_ERROR ==
  <<"The third argument (", "audio_status", ") to ", "translate_to_morse_code",
    "() must be an instance of tkinter.Entry.">>
MESSAGEBOX_MSG_TO_MORSE_FOURTH_ARG_WRONG_ERROR ==
  <<"The fourth argument (", "output_entry", ") to ", "translate_to_morse_code",
    "() must be an instance of tkinter.Entry.">>
MESSAGEBOX_MSG_TO_PLAIN_FIRST_ARG_WRONG_ERROR ==
  <<"The first argument (", "user_morse_code_text", ") to ", "translate_to_plain_text",
    "() must be of type str.">>
MESSAGEBOX_MSG_TO_PLAIN_SECOND_ARG_WRONG_ERROR ==
  <<"The second argument (", "audio_request", ") to ", "translate_to_plain_text",
    "() must be of type bool.">>
MESSAGEBOX_MSG_TO_PLAIN_THIRD_ARG_WRONG_ERROR ==
  <<"The third argument (", "audio_status", ") to ", "translate_to_plain_text",
    "() must be an instance of tkinter.Entry.">>
MESSAGEBOX_MSG_TO_PLAIN_FOURTH_ARG_WRONG_ERROR ==
  <<"The fourth argument (", "output_entry", ") to ", "translate_to_plain_text",
    "() must be an instance of tkinter.Entry.">>

\* the character class of the pattern: what a Morse code input may be made of
PATT_SANITIZE_MORSE_CODE_INPUT == {".", "-", "/", " "}

\* the character class of the pattern: what the pycw module does not support
\* ("U+0060" is the backquote)
PATT_SANITIZE_PLAIN_TEXT_INPUT == {"~", "U+0060", "<", ">", "\\", "|", "*", "^", "%", "@", "#"}

(***************************************************************************)
(* str, re and unidecode, as far as functions.py uses them.                *)
(***************************************************************************)
WHITESPACE == {" ", "\t"}

ASCII_LOWERCASE == <<"a", "b", "c", "d", "e", "f", "g", "h", "i", "j", "k", "l", "m",
                     "n", "o", "p", "q", "r", "s", "t", "u", "v", "w", "x", "y", "z">>
ASCII_UPPERCASE == <<"A", "B", "C", "D", "E", "F", "G", "H", "I", "J", "K", "L", "M",
                     "N", "O", "P", "Q", "R", "S", "T", "U", "V", "W", "X", "Y", "Z">>

\* unidecode.unidecode on the characters of the model that are not ASCII:
\* z with dot above, L with stroke, o with acute, c with acute, an emoji,
\* which has no transliteration, and Z with dot above.
UNIDECODE_TABLE ==
  ("U+017C" :> <<"z">>) @@ ("U+0141" :> <<"L">>) @@ ("U+00F3" :> <<"o">>) @@
  ("U+0107" :> <<"c">>) @@ ("U+1F600" :> <<>>) @@ ("U+017B" :> <<"Z">>)

RECURSIVE unidecode(_)
unidecode(s) ==
  IF s = <<>> THEN <<>>
  ELSE (IF Head(s) \in DOMAIN UNIDECODE_TABLE THEN UNIDECODE_TABLE[Head(s)] ELSE <<Head(s)>>)
       \o unidecode(Tail(s))

\* str.upper that leaves the text as it is.
upper_unchanged(s) == s

upper(s) ==
  [i \in DOMAIN s |->
     IF \E k \in DOMAIN ASCII_LOWERCASE : ASCII_LOWERCASE[k] = s[i]
     THEN ASCII_UPPERCASE[CHOOSE k \in DOMAIN ASCII_LOWERCASE : ASCII_LOWERCASE[k] = s[i]]
     ELSE s[i]]

RECURSIVE lstrip(_)
lstrip(s) == IF s # <<>> /\ Head(s) \in WHITESPACE THEN lstrip(Tail(s)) ELSE s

RECURSIVE rstrip(_)
rstrip(s) == IF s # <<>> /\ s[Len(s)] \in WHITESPACE THEN rstrip(SubSeq(s, 1, Len(s) - 1)) ELSE s

strip(s) == rstrip(lstrip(s))

\* The least element of a non-empty set of integers.
Min(S) == CHOOSE x \in S : \A y \in S : x <= y

\* str.split(): the maximal runs of characters that are not white space
RECURSIVE split(_)
split(s) ==
  LET t == lstrip(s)
      n == Min({i \in 1..Len(t) : t[i] \in WHITESPACE} \cup {Len(t) + 1})
  IN  IF t = <<>> THEN <<>>
      ELSE <<SubSeq(t, 1, n - 1)>> \o split(SubSeq(t, n, Len(t)))

\* str.split(sep): cut at the occurrences of sep found from left to right
RECURSIVE split_sep(_, _)
split_sep(s, sep) ==
  LET hits == {i \in 1..(Len(s) - Len(sep) + 1) : SubSeq(s, i, i + Len(sep) - 1) = sep}
  IN  IF hits = {} THEN <<s>>
      ELSE <<SubSeq(s, 1, Min(hits) - 1)>>
           \o split_sep(SubSeq(s, Min(hits) + Len(sep), Len(s)), sep)

\* sep.join(parts)
RECURSIVE join(_, _)
join(sep, parts) ==
  IF parts = <<>> THEN <<>>
  ELSE IF Len(parts) = 1 THEN parts[1]
  ELSE parts[1] \o sep \o join(sep, Tail(parts))

\* dict.get(key, key): a key that is missing is its own value.
dict_get_key(d, key) == IF key \in DOMAIN d THEN d[key] ELSE <<key>>

\* dict.get(key, "")
dict_get(d, key) == IF key \in DOMAIN d THEN d[key] ELSE <<>>

\* re.search(pattern, string) for a pattern that is a character class
re_search(class, s) == \E i \in DOMAIN s : s[i] \in class

\* re.sub with count=1: only the first run of characters of the class goes.
re_sub_class_once(class, s) ==
  LET hits == {i \in DOMAIN s : s[i] \in class}
      first == Min(hits)
      after == Min({i \in first..Len(s) : s[i] \notin class} \cup {Len(s) + 1})
  IN  IF hits = {} THEN s ELSE SubSeq(s, 1, first - 1) \o SubSeq(s, after, Len(s))

\* re.sub(pattern, "", string) for a pattern that is a character class
re_sub_class(class, s) == SelectSeq(s, LAMBDA c : c \notin class)

\* re.fullmatch(pattern, string) for a pattern [class]+
\* re.match in the place of re.fullmatch: only the start of the string has to
\* be of the class.
re_match(class, s) == s # <<>> /\ s[1] \in class

re_fullmatch(class, s) == s # <<>> /\ \A i \in DOMAIN s : s[i] \in class

\* re.sub with repl="": a run of two or more white-space characters goes.
PATT_REDUCE_SPACES_TO_NOTHING(s) ==
  LET long(i) == s[i] \in WHITESPACE /\ \/ i > 1 /\ s[i - 1] \in WHITESPACE
                                        \/ i < Len(s) /\ s[i + 1] \in WHITESPACE
      kept == {i \in DOMAIN s : ~long(i)}
      nth(k) == CHOOSE i \in kept : Cardinality({j \in kept : j <= i}) = k
  IN  [k \in 1..Cardinality(kept) |-> s[nth(k)]]

\* re.sub(PATT_REDUCE_SPACES_MORSE_CODE_INPUT, " ", string): \s{2,} -> " "
RECURSIVE PATT_REDUCE_SPACES_MORSE_CODE_INPUT(_)
PATT_REDUCE_SPACES_MORSE_CODE_INPUT(s) ==
  LET run == Min({i \in 1..Len(s) : s[i] \notin WHITESPACE} \cup {Len(s) + 1}) - 1
  IN  IF s = <<>> THEN <<>>
      ELSE IF run >= 2
           THEN <<" ">> \o PATT_REDUCE_SPACES_MORSE_CODE_INPUT(SubSeq(s, run + 1, Len(s)))
           ELSE <<Head(s)>> \o PATT_REDUCE_SPACES_MORSE_CODE_INPUT(Tail(s))

(***************************************************************************)
(* The state: the module global of functions.py, the widgets of UI.py and  *)
(* the collaborators (file system, message boxes, pycw, playsound3,        *)
(* pyperclip).  messagebox, os, pycw, playsound3 and call describe the     *)
(* most recent call only.                                                  *)
(***************************************************************************)
VARIABLES
  most_recent_audio_filepath,  \* "" or the path of the last file rendered
  entry_plain_text_io,         \* [text, state]
  entry_morse_code_io,         \* [text, state]
  entry_audio_status,          \* [text, state]
  audio_requested,             \* the check box "Create Audio"
  output_dir,                  \* [exists, files]: the output directory
  messagebox,                  \* the dialogs of the call: [kind, message, reply]
  os,                          \* the os.makedirs calls of the call: [name, result]
  pycw,                        \* the output_wave calls of the call: [file, text, result]
  playsound3,                  \* the playsound calls of the call: [sound, result]
  pyperclip,                   \* the clipboard
  call,                        \* [fn, args, raised]: the function called, its
                               \* arguments, the exception it let escape
  writer                       \* the runs of create_audio_file 157-180 under way on
                               \* the output directory, statement by statement:
                               \* [pc, counter, audio_filepath, written, overwrote,
                               \* raised]

vars == <<most_recent_audio_filepath, entry_plain_text_io, entry_morse_code_io,
          entry_audio_status, audio_requested, output_dir, messagebox, os, pycw,
          playsound3, pyperclip, call, writer>>

\* The state a call starts from, as one value; the records of the previous
\* call are gone.
Machine ==
  [most_recent_audio_filepath |-> most_recent_audio_filepath,
   widgets |-> [entry_plain_text_io |-> entry_plain_text_io,
                entry_morse_code_io |-> entry_morse_code_io,
                entry_audio_status |-> entry_audio_status],
   output_dir |-> output_dir,
   messagebox |-> <<>>,
   os |-> <<>>,
   pycw |-> <<>>,
   playsound3 |-> <<>>,
   pyperclip |-> pyperclip,
   raised |-> ""]

\* The state a call of fn leaves.
Commit(m, fn, args) ==
  /\ most_recent_audio_filepath' = m.most_recent_audio_filepath
  /\ entry_plain_text_io' = m.widgets.entry_plain_text_io
  /\ entry_morse_code_io' = m.widgets.entry_morse_code_io
  /\ entry_audio_status' = m.widgets.entry_audio_status
  /\ output_dir' = m.output_dir
  /\ messagebox' = m.messagebox
  /\ os' = m.os
  /\ pycw' = m.pycw
  /\ playsound3' = m.playsound3
  /\ pyperclip' = m.pyperclip
  /\ call' = [fn |-> fn, args |-> args, raised |-> m.raised]

\* A call that runs from its first statement to its return with no other
\* run of the program in between.
Return(m, fn, args) == Commit(m, fn, args) /\ writer' = writer

\* messagebox.showerror / showwarning / showinfo / askyesno
show(m, kind, message, reply) ==
  [m EXCEPT !.messagebox = Append(@, [kind |-> kind, message |-> message, reply |-> reply])]

\* tk.Entry.delete(0, END) and tk.Entry.insert(0, string): an entry that is
\* not in state "normal" ignores them.
entry_delete(e) == IF e.state = "normal" THEN [e EXCEPT !.text = <<>>] ELSE e
entry_insert(e, string) == IF e.state = "normal" THEN [e EXCEPT !.text = string \o @] ELSE e

(***************************************************************************)
(* functions.py                                                            *)
(***************************************************************************)
\* change_entry_text without the last if statement: the entry stays in
\* state "normal".
change_entry_text_unrestored(m, entry_to_change, change_to) ==
  LET e0 == m.widgets[entry_to_change]
      e1 == IF e0.state = "readonly" THEN [e0 EXCEPT !.state = "normal"] ELSE e0
      e2 == entry_delete(e1)
      e3 == IF change_to # <<>> THEN entry_insert(e2, change_to) ELSE e2
  IN  [m EXCEPT !.widgets[entry_to_change] = e3]

\* change_entry_text without the switch to state "normal": a read-only
\* entry ignores the change.
change_entry_text_locked(m, entry_to_change, change_to) ==
  LET e0 == m.widgets[entry_to_change]
      e2 == entry_delete(e0)
      e3 == IF change_to # <<>> THEN entry_insert(e2, change_to) ELSE e2
  IN  [m EXCEPT !.widgets[entry_to_change] = e3]

\* change_entry_text that deletes the old text only when there is a new one.
change_entry_text_kept(m, entry_to_change, change_to) ==
  LET e0 == m.widgets[entry_to_change]
      e1 == IF e0.state = "readonly" THEN [e0 EXCEPT !.state = "normal"] ELSE e0
      e3 == IF change_to # <<>> THEN entry_insert(entry_delete(e1), change_to) ELSE e1
  IN  [m EXCEPT !.widgets[entry_to_change] = [e3 EXCEPT !.state = e0.state]]

change_entry_text(m, entry_to_change, change_to) ==
  LET e0 == m.widgets[entry_to_change]
      entry_widget_original_state == e0.state
      e1 == IF entry_widget_original_state = "readonly" THEN [e0 EXCEPT !.state = "normal"] ELSE e0
      e2 == entry_delete(e1)
      e3 == IF change_to # <<>> THEN entry_insert(e2, change_to) ELSE e2
      e4 == IF entry_widget_original_state = "readonly" THEN [e3 EXCEPT !.state = "readonly"] ELSE e3
  IN  [m EXCEPT !.widgets[entry_to_change] = e4]

\* change_most_recent_filepath that assigns only a non-empty path: the slot
\* is never emptied.
change_most_recent_filepath_nonempty(m, change_to) ==
  IF change_to = "" THEN m ELSE [m EXCEPT !.most_recent_audio_filepath = change_to]

change_most_recent_filepath(m, change_to) ==
  [m EXCEPT !.most_recent_audio_filepath = change_to]

\* os.path.splitext of DEFAULT_AUDIO_OUTPUT_DIR/DEFAULT_AUDIO_OUTPUT_FILE
audio_file_name == DEFAULT_AUDIO_OUTPUT_DIR \o "/" \o "morse_code_audio"
audio_file_ext == ".wav"

\* The value of audio_filepath once counter has the given value.
audio_filepath(counter) ==
  IF counter = 0 THEN DEFAULT_AUDIO_OUTPUT_DIR \o "/" \o DEFAULT_AUDIO_OUTPUT_FILE
  ELSE audio_file_name \o "_" \o ToString(counter) \o audio_file_ext

\* No while statement: the counter stays as it is.
first_unused_counter_unchecked(files, counter) == counter

\* An if in the place of the while: the counter goes up once at most.
first_unused_counter_once(files, counter) ==
  IF audio_filepath(counter) \in files THEN counter + 1 ELSE counter

\* while os.path.exists(audio_filepath): counter += 1; ...
RECURSIVE first_unused_counter(_, _)
first_unused_counter(files, counter) ==
  IF audio_filepath(counter) \in files THEN first_unused_counter(files, counter + 1)
  ELSE counter

\* What os.makedirs and pycw.output_wave may do: succeed, or raise at one
\* of the two.
RenderOutcomes ==
  {[at |-> "", raises |-> ""]} \cup
  [at : {"os.makedirs", "pycw.output_wave"}, raises : {"PermissionError", "OSError"}]

\* The try statement of create_audio_file and what follows it.
render(m, normalized_text, audio_status, outcome) ==
  LET made == outcome.at # "os.makedirs"
      m0 == [m EXCEPT !.os = Append(@, [name |-> DEFAULT_AUDIO_OUTPUT_DIR,
                                        result |-> IF made THEN "ok" ELSE outcome.raises])]
      m1 == IF made THEN [m0 EXCEPT !.output_dir.exists = TRUE] ELSE m0
      path == audio_filepath(first_unused_counter(m1.output_dir.files, 0))
      written == made /\ outcome.at # "pycw.output_wave"
      result == IF written THEN "ok" ELSE outcome.raises
      m2 == IF made
            THEN [m1 EXCEPT !.pycw = Append(@, [file |-> path, text |-> normalized_text,
                                               result |-> result]),
                            !.output_dir.files = IF written THEN @ \cup {path} ELSE @]
            ELSE m1
  IN  IF written
      THEN LET m3 == change_most_recent_filepath(m2, path)
           IN  change_entry_text(m3, audio_status,
                                 <<AUDIO_READY_MESSAGE, " ", m3.most_recent_audio_filepath>>)
      ELSE IF outcome.raises = "PermissionError"
      THEN show(m2, "showerror", MESSAGEBOX_MSG_TO_MORSE_PERM_ERROR, "ok")
      ELSE [m2 EXCEPT !.raised = outcome.raises]

create_audio_file(m, normalized_text, audio_status, answer, outcome) ==
  IF re_search(PATT_SANITIZE_PLAIN_TEXT_INPUT, normalized_text)
  THEN LET asked == show(m, "askyesno", MESSAGEBOX_MSG_AUTO_CLEANUP_CONFIRM,
                         IF answer THEN "yes" ELSE "no")
       IN  IF answer
           THEN render(asked, re_sub_class(PATT_SANITIZE_PLAIN_TEXT_INPUT, normalized_text),
                       audio_status, outcome)
           ELSE change_entry_text(change_most_recent_filepath(asked, ""), audio_status, <<>>)
  ELSE render(m, normalized_text, audio_status, outcome)

\* The Morse code of a normalized text (functions.py 243-245).
mcode(split_user_text) ==
  strip(join(<<" ", "/", " ">>,
             [w \in DOMAIN split_user_text |->
                join(<<" ">>, [i \in DOMAIN split_user_text[w] |->
                                 dict_get(MORSE_CODE_DICT, split_user_text[w][i])])]))

\* translate_to_morse_code that clears the slot and the audio status when no
\* audio is requested.
translate_to_morse_code_clearing(m, user_plain_text, audio_request, audio_status, output_entry, answer, outcome) ==
  IF user_plain_text # <<>>
  THEN LET normalized_text == strip(upper(unidecode(user_plain_text)))
           split_user_text == split(normalized_text)
           sanitized_text == re_sub_class(PATT_SANITIZE_PLAIN_TEXT_INPUT, normalized_text)
       IN  IF sanitized_text = <<>>
           THEN show(change_entry_text(change_most_recent_filepath(m, ""), audio_status, <<>>),
                     "showwarning", MESSAGEBOX_MSG_MEANINGLESS_INPUT_WARNING, "ok")
           ELSE LET shown == change_entry_text(m, output_entry, mcode(split_user_text))
                IN  IF audio_request
                    THEN create_audio_file(shown, normalized_text, audio_status, answer, outcome)
                    ELSE change_entry_text(change_most_recent_filepath(shown, ""),
                                           audio_status, <<>>)
  ELSE show(m, "showwarning", MESSAGEBOX_MSG_NOTHING_TO_TRANSLATE_WARNING, "ok")

translate_to_morse_code(m, user_plain_text, audio_request, audio_status, output_entry, answer, outcome) ==
  IF user_plain_text # <<>>
  THEN LET normalized_text == strip(upper(unidecode(user_plain_text)))
           split_user_text == split(normalized_text)
           sanitized_text == re_sub_class(PATT_SANITIZE_PLAIN_TEXT_INPUT, normalized_text)
       IN  IF sanitized_text = <<>>
           THEN show(change_entry_text(change_most_recent_filepath(m, ""), audio_status, <<>>),
                     "showwarning", MESSAGEBOX_MSG_MEANINGLESS_INPUT_WARNING, "ok")
           ELSE LET shown == change_entry_text(m, output_entry, mcode(split_user_text))
                IN  IF audio_request
                    THEN create_audio_file(shown, normalized_text, audio_status, answer, outcome)
                    ELSE shown
  ELSE show(m, "showwarning", MESSAGEBOX_MSG_NOTHING_TO_TRANSLATE_WARNING, "ok")

\* A comprehension that does not switch: {k: v for k, v in ...}.
switched_morse_code_dict_unswitched == MORSE_CODE_DICT

\* {v: k for k, v in MORSE_CODE_DICT.items()}: of two keys with the same
\* code, the later one stays.
switched_morse_code_dict ==
  [v \in {MORSE_CODE_DICT[k] : k \in MORSE_CODE_KEYS} |->
     LET last == CHOOSE i \in DOMAIN MORSE_CODE_ITEMS :
                    /\ MORSE_CODE_DICT[MORSE_CODE_ITEMS[i][1]] = v
                    /\ \A j \in DOMAIN MORSE_CODE_ITEMS :
                          MORSE_CODE_DICT[MORSE_CODE_ITEMS[j][1]] = v => j <= i
     IN  MORSE_CODE_ITEMS[last][1]]

\* The plain text of a Morse code input that has only legal characters
\* (functions.py 308-321).
plain_text(user_morse_code_text) ==
  LET user_morse_code_text_reduced == PATT_REDUCE_SPACES_MORSE_CODE_INPUT(user_morse_code_text)
      split_user_morse_code_text == split_sep(user_morse_code_text_reduced, <<" ", "/", " ">>)
      decoded(word) ==
        LET codes == split(word)
        IN  join(<<>>, [i \in DOMAIN codes |->
                          IF codes[i] \in DOMAIN switched_morse_code_dict
                          THEN <<switched_morse_code_dict[codes[i]]>> ELSE <<>>])
  IN  strip(join(<<" ">>, [w \in DOMAIN split_user_morse_code_text |->
                             decoded(split_user_morse_code_text[w])]))

\* translate_to_plain_text without the test for an empty input: the empty
\* string fails re.fullmatch and, decoded, is the empty text.
translate_to_plain_text_untested(m, user_morse_code_text, audio_request, audio_status, output_entry, answer, outcome) ==
  IF user_morse_code_text # <<>> /\ ~re_fullmatch(PATT_SANITIZE_MORSE_CODE_INPUT, user_morse_code_text)
  THEN show(m, "showwarning", MESSAGEBOX_MSG_TRANSLATE_TO_PLAIN_WARNING, "ok")
  ELSE LET text == plain_text(user_morse_code_text)
       IN  IF text # <<>>
           THEN LET shown == change_entry_text(m, output_entry, text)
                IN  IF audio_request
                    THEN create_audio_file(shown, text, audio_status, answer, outcome)
                    ELSE shown
           ELSE show(change_entry_text(change_most_recent_filepath(m, ""), audio_status, <<>>),
                     "showwarning", MESSAGEBOX_MSG_MEANINGLESS_INPUT_WARNING, "ok")

\* translate_to_plain_text that clears the slot and the audio status when no
\* audio is requested.
translate_to_plain_text_clearing(m, user_morse_code_text, audio_request, audio_status, output_entry, answer, outcome) ==
  IF user_morse_code_text = <<>>
  THEN show(m, "showwarning", MESSAGEBOX_MSG_NOTHING_TO_TRANSLATE_WARNING, "ok")
  ELSE IF ~re_fullmatch(PATT_SANITIZE_MORSE_CODE_INPUT, user_morse_code_text)
  THEN show(m, "showwarning", MESSAGEBOX_MSG_TRANSLATE_TO_PLAIN_WARNING, "ok")
  ELSE LET text == plain_text(user_morse_code_text)
       IN  IF text # <<>>
           THEN LET shown == change_entry_text(m, output_entry, text)
                IN  IF audio_request
                    THEN create_audio_file(shown, text, audio_status, answer, outcome)
                    ELSE change_entry_text(change_most_recent_filepath(shown, ""),
                                           audio_status, <<>>)
           ELSE show(change_entry_text(change_most_recent_filepath(m, ""), audio_status, <<>>),
                     "showwarning", MESSAGEBOX_MSG_MEANINGLESS_INPUT_WARNING, "ok")

translate_to_plain_text(m, user_morse_code_text, audio_request, audio_status, output_entry, answer, outcome) ==
  IF user_morse_code_text = <<>>
  THEN show(m, "showwarning", MESSAGEBOX_MSG_NOTHING_TO_TRANSLATE_WARNING, "ok")
  ELSE IF ~re_fullmatch(PATT_SANITIZE_MORSE_CODE_INPUT, user_morse_code_text)
  THEN show(m, "showwarning", MESSAGEBOX_MSG_TRANSLATE_TO_PLAIN_WARNING, "ok")
  ELSE LET text == plain_text(user_morse_code_text)
       IN  IF text # <<>>
           THEN LET shown == change_entry_text(m, output_entry, text)
                IN  IF audio_request
                    THEN create_audio_file(shown, text, audio_status, answer, outcome)
                    ELSE shown
           ELSE show(change_entry_text(change_most_recent_filepath(m, ""), audio_status, <<>>),
                     "showwarning", MESSAGEBOX_MSG_MEANINGLESS_INPUT_WARNING, "ok")

\* play_audio_file that empties the slot when the playback fails.
play_audio_file_forgetting(m, audio_status, played) ==
  IF audio_status # <<>>
  THEN LET m1 == [m EXCEPT !.playsound3 =
                     Append(@, [sound |-> m.most_recent_audio_filepath,
                                result |-> IF played THEN "ok" ELSE "PlaysoundException"])]
       IN  IF played THEN m1
           ELSE show([m1 EXCEPT !.most_recent_audio_filepath = ""],
                     "showerror", "PlaysoundException", "ok")
  ELSE show(m, "showwarning", MESSAGEBOX_MSG_PLAY_WARNING, "ok")

\* play_audio_file that looks at the slot and not at the audio status.
play_audio_file_slot(m, audio_status, played) ==
  IF m.most_recent_audio_filepath # ""
  THEN LET m1 == [m EXCEPT !.playsound3 =
                     Append(@, [sound |-> m.most_recent_audio_filepath,
                                result |-> IF played THEN "ok" ELSE "PlaysoundException"])]
       IN  IF played THEN m1
           ELSE show(m1, "showerror", "PlaysoundException", "ok")
  ELSE show(m, "showwarning", MESSAGEBOX_MSG_PLAY_WARNING, "ok")

\* play_audio_file without the try statement.
play_audio_file_uncaught(m, audio_status, played) ==
  IF audio_status # <<>>
  THEN LET m1 == [m EXCEPT !.playsound3 =
                     Append(@, [sound |-> m.most_recent_audio_filepath,
                                result |-> IF played THEN "ok" ELSE "PlaysoundException"])]
       IN  IF played THEN m1 ELSE [m1 EXCEPT !.raised = "PlaysoundException"]
  ELSE show(m, "showwarning", MESSAGEBOX_MSG_PLAY_WARNING, "ok")

play_audio_file(m, audio_status, played) ==
  IF audio_status # <<>>
  THEN LET m1 == [m EXCEPT !.playsound3 =
                     Append(@, [sound |-> m.most_recent_audio_filepath,
                                result |-> IF played THEN "ok" ELSE "PlaysoundException"])]
       IN  IF played THEN m1
           ELSE show(m1, "showerror", "PlaysoundException", "ok")
  ELSE show(m, "showwarning", MESSAGEBOX_MSG_PLAY_WARNING, "ok")

copy_to_clipboard(m, text_to_copy) ==
  IF text_to_copy # <<>>
  THEN show([m EXCEPT !.pyperclip = text_to_copy],
            "showinfo", MESSAGEBOX_MSG_COPY_SUCCESS, "ok")
  ELSE show(m, "showwarning", MESSAGEBOX_MSG_COPY_WARNING, "ok")

\* A loop that stops after its first widget.
clear_each_first(m, args) ==
  IF args = <<>> THEN m ELSE change_entry_text(m, Head(args), <<>>)

\* for widget in args: change_entry_text(entry_to_change=widget)
RECURSIVE clear_each(_, _)
clear_each(m, args) ==
  IF args = <<>> THEN m ELSE clear_each(change_entry_text(m, Head(args), <<>>), Tail(args))

\* clear_all without its last statement: the slot keeps its path.
clear_all_widgets_only(m, args) ==
  IF args = <<>>
  THEN show(m, "showerror", MESSAGEBOX_MSG_CLEAR_ALL_LACK_ARG_ERROR, "ok")
  ELSE clear_each(m, args)

clear_all(m, args) ==
  IF args = <<>>
  THEN show(m, "showerror", MESSAGEBOX_MSG_CLEAR_ALL_LACK_ARG_ERROR, "ok")
  ELSE change_most_recent_filepath(clear_each(m, args), "")

(***************************************************************************)
(* The functions with the isinstance tests they start with.  Python passes *)
(* any object as an argument: types[i] is the type of the i-th one, and    *)
(* the value of an argument is looked at only once its type has passed.    *)
(***************************************************************************)
isinstance(type, classinfo) == type = classinfo

def_play_audio_file(m, types, audio_status, played) ==
  IF ~isinstance(types[1], "str")
  THEN show(m, "showerror", MESSAGEBOX_MSG_PLAY_WRONG_ARG_ERROR, "ok")
  ELSE play_audio_file(m, audio_status, played)

def_change_entry_text(m, types, entry_to_change, change_to) ==
  IF ~isinstance(types[1], "Entry")
  THEN show(m, "showerror", MESSAGEBOX_MSG_CHANGE_ENTRY_WRONG_FIRST_ARG_ERROR, "ok")
  ELSE IF ~isinstance(types[2], "str")
  THEN show(m, "showerror", MESSAGEBOX_MSG_CHANGE_ENTRY_WRONG_SECOND_ARG_ERROR, "ok")
  ELSE change_entry_text(m, entry_to_change, change_to)

def_change_most_recent_filepath(m, types, change_to) ==
  IF ~isinstance(types[1], "str")
  THEN show(m, "showerror", MESSAGEBOX_MSG_CHANGE_FILEPATH_WRONG_ARG_ERROR, "ok")
  ELSE change_most_recent_filepath(m, change_to)

def_create_audio_file(m, types, normalized_text, audio_status, answer, outcome) ==
  IF ~isinstance(types[1], "str")
  THEN show(m, "showerror", MESSAGEBOX_MSG_CREATE_AUDIO_FIRST_ARG_WRONG_ERROR, "ok")
  ELSE IF ~isinstance(types[2], "Entry")
  THEN show(m, "showerror", MESSAGEBOX_MSG_CREATE_AUDIO_SECOND_ARG_WRONG_ERROR, "ok")
  ELSE create_audio_file(m, normalized_text, audio_status, answer, outcome)

def_translate_to_morse_code(m, types, user_plain_text, audio_request, audio_status, output_entry, answer, outcome) ==
  IF ~isinstance(types[1], "str")
  THEN show(m, "showerror", MESSAGEBOX_MSG_TO_MORSE_FIRST_ARG_WRONG_ERROR, "ok")
  ELSE IF ~isinstance(types[2], "bool")
  THEN show(m, "showerror", MESSAGEBOX_MSG_TO_MORSE_SECOND_ARG_WRONG_ERROR, "ok")
  ELSE IF ~isinstance(types[3], "Entry")
  THEN show(m, "showerror", MESSAGEBOX_MSG_TO_MORSE_THIRD_ARG_WRONG_ERROR, "ok")
  ELSE IF ~isinstance(types[4], "Entry")
  THEN show(m, "showerror", MESSAGEBOX_MSG_TO_MORSE_FOURTH_ARG_WRONG_ERROR, "ok")
  ELSE translate_to_morse_code(m, user_plain_text, audio_request, audio_status, output_entry,
                               answer, outcome)

def_translate_to_plain_text(m, types, user_morse_code_text, audio_request, audio_status, output_entry, answer, outcome) ==
  IF ~isinstance(types[1], "str")
  THEN show(m, "showerror", MESSAGEBOX_MSG_TO_PLAIN_FIRST_ARG_WRONG_ERROR, "ok")
  ELSE IF ~isinstance(types[2], "bool")
  THEN show(m, "showerror", MESSAGEBOX_MSG_TO_PLAIN_SECOND_ARG_WRONG_ERROR, "ok")
  ELSE IF ~isinstance(types[3], "Entry")
  THEN show(m, "showerror", MESSAGEBOX_MSG_TO_PLAIN_THIRD_ARG_WRONG_ERROR, "ok")
  ELSE IF ~isinstance(types[4], "Entry")
  THEN show(m, "showerror", MESSAGEBOX_MSG_TO_PLAIN_FOURTH_ARG_WRONG_ERROR, "ok")
  ELSE translate_to_plain_text(m, user_morse_code_text, audio_request, audio_status,
                               output_entry, answer, outcome)

def_copy_to_clipboard(m, types, text_to_copy) ==
  IF ~isinstance(types[1], "str")
  THEN show(m, "showerror", MESSAGEBOX_MSG_CLIPBOARD_WRONG_ARG_ERROR, "ok")
  ELSE copy_to_clipboard(m, text_to_copy)

def_clear_all(m, types, args) ==
  IF args # <<>> /\ \E i \in DOMAIN types : ~isinstance(types[i], "Entry")
  THEN show(m, "showerror", MESSAGEBOX_MSG_CLEAR_ALL_WRONG_ARG_ERROR, "ok")
  ELSE clear_all(m, args)

(***************************************************************************)
(* The arguments of the calls: the inputs of the tests and of the          *)
(* documentation, and one text of each kind the code tells apart.          *)
(***************************************************************************)
PlainArgs ==
  { <<>>,
    <<" ", "2", " ", "S", "e", "A", "s">>,
    <<"#", "#">>,
    <<"#", "t", "e", "s", "t", "@">>,
    <<"@">>,
    <<"@", " ", "@">>,
    <<"[">> }

\* A caller of create_audio_file passes a normalized text.
NormalizedArgs == {strip(upper(unidecode(t))) : t \in PlainArgs}

MorseArgs ==
  { <<>>,
    <<".", ".", "-", "-", "-", " ", "/", " ", ".", ".", ".", " ", ".", " ", ".", "-", " ", ".", ".", ".">>,
    <<"-", "-", "-", "-", "-", "-", "-", "-", "-", "-", "-">>,
    <<"#", "$", "g", "a", "w">>,
    <<".", "-", "-", ".", "-", ".">>,
    <<"/">>,
    <<"-", "-", "-", "-", " ", "/", " ", ".", ".", "-", "-">>,
    <<".", "-", " ", "x">> }

\* The texts of at most n characters of the set chars.
Texts(chars, n) == UNION {[1..k -> chars] : k \in 0..n}

\* What the user may have typed into an entry before pressing a button.
PlainChars == {"e", "T", "@", "#", "[", " ", "U+017C", "U+1F600"}
MorseChars == {".", "-", "/", " "}
PlainInputs == Texts(PlainChars, MaxPlainInput) \cup {<<c>> : c \in MORSE_CODE_KEYS}
MorseInputs ==
  Texts(MorseChars, MaxMorseInput) \cup {<<".", " ", "/", " ", "/", " ", "/", " ", ".">>}

\* What the collaborators can do in the current state: os.makedirs with
\* exist_ok=True does not raise on a directory that exists, and the model
\* holds at most MaxFiles files.
Possible(outcome) ==
  /\ outcome.at = "os.makedirs" => ~output_dir.exists
  /\ outcome.at = "" => Cardinality(output_dir.files) < MaxFiles

\* playsound3.playsound plays a file that exists, or raises; it raises on
\* a path that names no file.
CanPlay(played) == played => most_recent_audio_filepath \in output_dir.files

(***************************************************************************)
(* The application when it starts (functions.py 16, UI.py 61-71, 151);     *)
(* the output directory may hold files of earlier runs.                    *)
(***************************************************************************)
Init ==
  /\ most_recent_audio_filepath = ""
  /\ entry_plain_text_io = [text |-> <<>>, state |-> "normal"]
  /\ entry_morse_code_io = [text |-> <<>>, state |-> "normal"]
  /\ entry_audio_status = [text |-> <<>>, state |-> "readonly"]
  /\ audio_requested = FALSE
  /\ \E files \in SUBSET {audio_filepath(k) : k \in 0..(MaxFiles - 1)} :
       \E exists \in BOOLEAN :
         /\ files # {} => exists
         /\ output_dir = [exists |-> exists, files |-> files]
  /\ messagebox = <<>>
  /\ os = <<>>
  /\ pycw = <<>>
  /\ playsound3 = <<>>
  /\ pyperclip = <<>>
  /\ call = [fn |-> "", args |-> [none |-> TRUE], raised |-> ""]
  /\ writer = <<>>

(***************************************************************************)
(* What the user and the collaborators answer during a call F: a reply to  *)
(* the confirmation (if it is asked) and an outcome of the rendering (if   *)
(* it is reached).                                                         *)
(***************************************************************************)
NoFailure == [at |-> "", raises |-> ""]

Environments(F(_, _)) ==
  LET probe == F(TRUE, NoFailure)
      asks == \E i \in DOMAIN probe.messagebox : probe.messagebox[i].kind = "askyesno"
      renders == probe.os # <<>>
  IN  {env \in (IF asks THEN BOOLEAN ELSE {TRUE}) \X (IF renders THEN RenderOutcomes ELSE {NoFailure}) :
         /\ renders /\ env[1] => Possible(env[2])
         /\ ~env[1] => env[2] = NoFailure}

(***************************************************************************)
(* The functions called on the widgets of the application, with any        *)
(* arguments.                                                              *)
(***************************************************************************)
Call_translate_to_morse_code ==
  \E user_plain_text \in PlainArgs, audio_request \in BOOLEAN :
    \E env \in Environments(LAMBDA answer, outcome :
                 translate_to_morse_code(Machine, user_plain_text, audio_request,
                                         "entry_audio_status", "entry_morse_code_io",
                                         answer, outcome)) :
      /\ Return(translate_to_morse_code(Machine, user_plain_text, audio_request,
                                        "entry_audio_status", "entry_morse_code_io",
                                        env[1], env[2]),
                "translate_to_morse_code",
                [user_plain_text |-> user_plain_text, audio_request |-> audio_request])
      /\ UNCHANGED audio_requested

Call_translate_to_plain_text ==
  \E user_morse_code_text \in MorseArgs, audio_request \in BOOLEAN :
    \E env \in Environments(LAMBDA answer, outcome :
                 translate_to_plain_text(Machine, user_morse_code_text, audio_request,
                                         "entry_audio_status", "entry_plain_text_io",
                                         answer, outcome)) :
      /\ Return(translate_to_plain_text(Machine, user_morse_code_text, audio_request,
                                        "entry_audio_status", "entry_plain_text_io",
                                        env[1], env[2]),
                "translate_to_plain_text",
                [user_morse_code_text |-> user_morse_code_text, audio_request |-> audio_request])
      /\ UNCHANGED audio_requested

Call_create_audio_file ==
  \E normalized_text \in NormalizedArgs :
    \E env \in Environments(LAMBDA answer, outcome :
                 create_audio_file(Machine, normalized_text, "entry_audio_status",
                                   answer, outcome)) :
      /\ Return(create_audio_file(Machine, normalized_text, "entry_audio_status",
                                  env[1], env[2]),
                "create_audio_file", [normalized_text |-> normalized_text])
      /\ UNCHANGED audio_requested

Call_play_audio_file ==
  \E audio_status \in {<<>>, entry_audio_status.text, <<AUDIO_READY_MESSAGE>>},
     played \in BOOLEAN :
    /\ CanPlay(played)
    /\ Return(play_audio_file(Machine, audio_status, played), "play_audio_file",
              [audio_status |-> audio_status])
    /\ UNCHANGED audio_requested

Call_clear_all ==
  \E args \in {<<>>, <<"entry_audio_status">>,
               <<"entry_plain_text_io", "entry_morse_code_io", "entry_audio_status">>} :
    /\ Return(clear_all(Machine, args), "clear_all", [args |-> args])
    /\ UNCHANGED audio_requested

Next ==
  \/ Call_translate_to_morse_code
  \/ Call_translate_to_plain_text
  \/ Call_create_audio_file
  \/ Call_play_audio_file
  \/ Call_clear_all

Spec == Init /\ [][Next]_vars

(***************************************************************************)
(* The buttons "To Morse" and "To Plain Text" as UI.py wires them, in a    *)
(* session in which the user typed one text and leaves "Create Audio" off. *)
(***************************************************************************)
button_translate_to_morse ==
  \E env \in Environments(LAMBDA answer, outcome :
               translate_to_morse_code(Machine, entry_plain_text_io.text, audio_requested,
                                       "entry_audio_status", "entry_morse_code_io",
                                       answer, outcome)) :
    /\ Return(translate_to_morse_code(Machine, entry_plain_text_io.text, audio_requested,
                                      "entry_audio_status", "entry_morse_code_io",
                                      env[1], env[2]),
              "translate_to_morse_code",
              [user_plain_text |-> entry_plain_text_io.text, audio_request |-> audio_requested])
    /\ UNCHANGED audio_requested

button_translate_to_plain ==
  \E env \in Environments(LAMBDA answer, outcome :
               translate_to_plain_text(Machine, strip(entry_morse_code_io.text),
                                       audio_requested,
                                       "entry_audio_status", "entry_plain_text_io",
                                       answer, outcome)) :
    /\ Return(translate_to_plain_text(Machine, strip(entry_morse_code_io.text),
                                      audio_requested,
                                      "entry_audio_status", "entry_plain_text_io",
                                      env[1], env[2]),
              "translate_to_plain_text",
              [user_morse_code_text |-> strip(entry_morse_code_io.text),
               audio_request |-> audio_requested])
    /\ UNCHANGED audio_requested

InitCodec ==
  /\ most_recent_audio_filepath = ""
  /\ \/ /\ \E t \in PlainInputs : entry_plain_text_io = [text |-> t, state |-> "normal"]
        /\ entry_morse_code_io = [text |-> <<>>, state |-> "normal"]
     \/ /\ entry_plain_text_io = [text |-> <<>>, state |-> "normal"]
        /\ \E t \in MorseInputs : entry_morse_code_io = [text |-> t, state |-> "normal"]
  /\ entry_audio_status = [text |-> <<>>, state |-> "readonly"]
  /\ audio_requested = FALSE
  /\ output_dir = [exists |-> FALSE, files |-> {}]
  /\ messagebox = <<>>
  /\ os = <<>>
  /\ pycw = <<>>
  /\ playsound3 = <<>>
  /\ pyperclip = <<>>
  /\ call = [fn |-> "", args |-> [none |-> TRUE], raised |-> ""]
  /\ writer = <<>>

NextCodec ==
  \/ button_translate_to_morse
  \/ button_translate_to_plain

SpecCodec == InitCodec /\ [][NextCodec]_vars

(***************************************************************************)
(* The application as UI.py wires it: the user types into the two          *)
(* entries, ticks "Create Audio" and presses the seven buttons.            *)
(***************************************************************************)
TypedPlainTexts == {<<"e">>, <<"#", "e">>, <<"#", "#">>, <<"[">>}
TypedMorseCodes == {<<".">>, <<"x">>, <<"-", "-", "-", "-">>, <<".", "-", "-", ".", "-", ".">>}

type_plain_text ==
  \E t \in TypedPlainTexts :
    /\ Return([Machine EXCEPT !.widgets.entry_plain_text_io.text = t], "type",
              [entry |-> "entry_plain_text_io", text |-> t])
    /\ UNCHANGED audio_requested

type_morse_code ==
  \E t \in TypedMorseCodes :
    /\ Return([Machine EXCEPT !.widgets.entry_morse_code_io.text = t], "type",
              [entry |-> "entry_morse_code_io", text |-> t])
    /\ UNCHANGED audio_requested

checkbox_audio_request ==
  /\ audio_requested' = ~audio_requested
  /\ Return(Machine, "checkbox_audio_request", [none |-> TRUE])

button_copy_plain ==
  /\ Return(copy_to_clipboard(Machine, entry_plain_text_io.text), "copy_to_clipboard",
            [text_to_copy |-> entry_plain_text_io.text])
  /\ UNCHANGED audio_requested

button_copy_morse ==
  /\ Return(copy_to_clipboard(Machine, entry_morse_code_io.text), "copy_to_clipboard",
            [text_to_copy |-> entry_morse_code_io.text])
  /\ UNCHANGED audio_requested

button_play_audio ==
  \E played \in BOOLEAN :
    /\ CanPlay(played)
    /\ Return(play_audio_file(Machine, entry_audio_status.text, played), "play_audio_file",
              [audio_status |-> entry_audio_status.text])
    /\ UNCHANGED audio_requested

button_clear_all ==
  /\ Return(clear_all(Machine, <<"entry_plain_text_io", "entry_morse_code_io",
                                 "entry_audio_status">>),
            "clear_all",
            [args |-> <<"entry_plain_text_io", "entry_morse_code_io", "entry_audio_status">>])
  /\ UNCHANGED audio_requested

NextUI ==
  \/ type_plain_text
  \/ type_morse_code
  \/ checkbox_audio_request
  \/ button_translate_to_morse
  \/ button_copy_plain
  \/ button_translate_to_plain
  \/ button_copy_morse
  \/ button_play_audio
  \/ button_clear_all

SpecUI == Init /\ [][NextUI]_vars

\* The application started on an output directory without audio files.
InitSession == Init /\ output_dir.files = {}

SpecSession == InitSession /\ [][NextUI]_vars

(***************************************************************************)
(* The functions called with arguments of any type.                        *)
(***************************************************************************)
\* The types of the arguments of a call of fn: the type of the def for a
\* parameter, or another one.
ArgTypes(annotations) ==
  {types \in [DOMAIN annotations -> {"str", "bool", "Entry", "NoneType"}] :
     \A i \in DOMAIN annotations : types[i] \in {annotations[i], "NoneType"}}

CallDef_play_audio_file ==
  \E types \in ArgTypes(<<"str">>), played \in BOOLEAN :
    /\ CanPlay(played)
    /\ Return(def_play_audio_file(Machine, types, entry_audio_status.text, played),
              "play_audio_file", [types |-> types, audio_status |-> entry_audio_status.text])
    /\ UNCHANGED audio_requested

CallDef_change_entry_text ==
  \E types \in ArgTypes(<<"Entry", "str">>),
     entry_to_change \in {"entry_plain_text_io", "entry_audio_status"},
     change_to \in {<<"e">>} :
    /\ Return(def_change_entry_text(Machine, types, entry_to_change, change_to),
              "change_entry_text",
              [types |-> types, entry_to_change |-> entry_to_change, change_to |-> change_to])
    /\ UNCHANGED audio_requested

CallDef_change_most_recent_filepath ==
  \E types \in ArgTypes(<<"str">>), change_to \in {"", audio_filepath(0)} :
    /\ Return(def_change_most_recent_filepath(Machine, types, change_to),
              "change_most_recent_filepath", [types |-> types, change_to |-> change_to])
    /\ UNCHANGED audio_requested

CallDef_create_audio_file ==
  \E types \in ArgTypes(<<"str", "Entry">>) :
    \E env \in Environments(LAMBDA answer, outcome :
                 def_create_audio_file(Machine, types, <<"#", "E">>, "entry_audio_status",
                                       answer, outcome)) :
      /\ Return(def_create_audio_file(Machine, types, <<"#", "E">>, "entry_audio_status",
                                      env[1], env[2]),
                "create_audio_file", [types |-> types, normalized_text |-> <<"#", "E">>])
      /\ UNCHANGED audio_requested

CallDef_translate_to_morse_code ==
  \E types \in ArgTypes(<<"str", "bool", "Entry", "Entry">>), audio_request \in BOOLEAN :
    \E env \in Environments(LAMBDA answer, outcome :
                 def_translate_to_morse_code(Machine, types, <<"#", "e">>, audio_request,
                                             "entry_audio_status", "entry_morse_code_io",
                                             answer, outcome)) :
      /\ Return(def_translate_to_morse_code(Machine, types, <<"#", "e">>, audio_request,
                                            "entry_audio_status", "entry_morse_code_io",
                                            env[1], env[2]),
                "translate_to_morse_code",
                [types |-> types, user_plain_text |-> <<"#", "e">>,
                 audio_request |-> audio_request])
      /\ UNCHANGED audio_requested

CallDef_translate_to_plain_text ==
  \E types \in ArgTypes(<<"str", "bool", "Entry", "Entry">>), audio_request \in BOOLEAN :
    \E env \in Environments(LAMBDA answer, outcome :
                 def_translate_to_plain_text(Machine, types, <<".">>, audio_request,
                                             "entry_audio_status", "entry_plain_text_io",
                                             answer, outcome)) :
      /\ Return(def_translate_to_plain_text(Machine, types, <<".">>, audio_request,
                                            "entry_audio_status", "entry_plain_text_io",
                                            env[1], env[2]),
                "translate_to_plain_text",
                [types |-> types, user_morse_code_text |-> <<".">>,
                 audio_request |-> audio_request])
      /\ UNCHANGED audio_requested

CallDef_copy_to_clipboard ==
  \E types \in ArgTypes(<<"str">>), text_to_copy \in {entry_morse_code_io.text} :
    /\ Return(def_copy_to_clipboard(Machine, types, text_to_copy), "copy_to_clipboard",
              [types |-> types, text_to_copy |-> text_to_copy])
    /\ UNCHANGED audio_requested

CallDef_clear_all ==
  \E n \in 0..3 :
    \E types \in ArgTypes([i \in 1..n |-> "Entry"]) :
      LET args == SubSeq(<<"entry_plain_text_io", "entry_morse_code_io", "entry_audio_status">>,
                         1, n)
      IN  /\ Return(def_clear_all(Machine, types, args), "clear_all",
                    [types |-> types, args |-> args])
          /\ UNCHANGED audio_requested

NextTypes ==
  \/ CallDef_play_audio_file
  \/ CallDef_change_entry_text
  \/ CallDef_change_most_recent_filepath
  \/ CallDef_create_audio_file
  \/ CallDef_translate_to_morse_code
  \/ CallDef_translate_to_plain_text
  \/ CallDef_copy_to_clipboard
  \/ CallDef_clear_all

SpecTypes == Init /\ [][NextTypes]_vars

(***************************************************************************)
(* The try statement of create_audio_file (functions.py 157-180) run by    *)
(* one or more writers on the same output directory, one statement at a    *)
(* time.  Writer 1 is this application; any other writer is another run of *)
(* the program, whose own widgets and slot are not part of the state.      *)
(***************************************************************************)
Idle ==
  [pc |-> "idle", counter |-> 0, audio_filepath |-> audio_filepath(0), written |-> {},
   overwrote |-> FALSE, raised |-> ""]

InitWriters ==
  /\ most_recent_audio_filepath = ""
  /\ entry_plain_text_io = [text |-> <<>>, state |-> "normal"]
  /\ entry_morse_code_io = [text |-> <<>>, state |-> "normal"]
  /\ entry_audio_status = [text |-> <<>>, state |-> "readonly"]
  /\ audio_requested = TRUE
  /\ \E files \in SUBSET {audio_filepath(k) : k \in 0..(MaxFiles - 1)} :
       \E exists \in BOOLEAN :
         /\ files # {} => exists
         /\ output_dir = [exists |-> exists, files |-> files]
  /\ messagebox = <<>>
  /\ os = <<>>
  /\ pycw = <<>>
  /\ playsound3 = <<>>
  /\ pyperclip = <<>>
  /\ call = [fn |-> "", args |-> [none |-> TRUE], raised |-> ""]
  /\ \E n \in 1..MaxWriters : writer = [w \in 1..n |-> Idle]

\* What a statement of a writer leaves alone in this application.
UnchangedApplication ==
  UNCHANGED <<most_recent_audio_filepath, entry_plain_text_io, entry_morse_code_io,
              entry_audio_status, audio_requested, messagebox, os, pycw, playsound3,
              pyperclip, call>>

\* The initial values of counter and audio_filepath (151-153), then
\* os.makedirs(name=DEFAULT_AUDIO_OUTPUT_DIR, exist_ok=True), which makes the
\* directory or, when there is none yet, raises.
writer_makedirs(w) ==
  /\ writer[w].pc = "idle"
  /\ Cardinality(output_dir.files) < MaxFiles
  /\ \E result \in {"ok"} \cup (IF output_dir.exists THEN {} ELSE {"PermissionError", "OSError"}) :
       IF result = "ok"
       THEN /\ output_dir' = [output_dir EXCEPT !.exists = TRUE]
            /\ writer' = [writer EXCEPT ![w] = [Idle EXCEPT !.pc = "exists",
                                                            !.written = writer[w].written]]
       ELSE /\ UNCHANGED output_dir
            /\ writer' = [writer EXCEPT ![w] = [Idle EXCEPT !.pc = "except",
                                                            !.raised = result,
                                                            !.written = writer[w].written]]
  /\ UnchangedApplication

\* A while statement that does not look at the directory.
writer_exists_unchecked(w) ==
  /\ writer[w].pc = "exists"
  /\ writer' = [writer EXCEPT ![w].pc = "output_wave"]
  /\ UNCHANGED output_dir
  /\ UnchangedApplication

\* One evaluation of while os.path.exists(audio_filepath), and the body of
\* the loop if the file is there.
writer_exists(w) ==
  /\ writer[w].pc = "exists"
  /\ IF writer[w].audio_filepath \in output_dir.files
     THEN writer' = [writer EXCEPT ![w].counter = @ + 1,
                                   ![w].audio_filepath = audio_filepath(writer[w].counter + 1)]
     ELSE writer' = [writer EXCEPT ![w].pc = "output_wave"]
  /\ UNCHANGED output_dir
  /\ UnchangedApplication

\* pycw.output_wave(file=audio_filepath, ...): it writes the file, over a
\* file of that name if there is one, or raises.
writer_output_wave(w) ==
  /\ writer[w].pc = "output_wave"
  /\ \E result \in {"ok", "PermissionError", "OSError"} :
       IF result = "ok"
       THEN /\ output_dir' = [output_dir EXCEPT !.files = @ \cup {writer[w].audio_filepath}]
            /\ writer' = [writer EXCEPT
                            ![w].pc = "else",
                            ![w].written = @ \cup {writer[w].audio_filepath},
                            ![w].overwrote = writer[w].audio_filepath \in output_dir.files]
       ELSE /\ UNCHANGED output_dir
            /\ writer' = [writer EXCEPT ![w].pc = "except", ![w].raised = result]
  /\ UnchangedApplication

\* The else clause of the try statement (176-180).
writer_else(w) ==
  /\ writer[w].pc = "else"
  /\ writer' = [writer EXCEPT ![w].pc = "idle"]
  /\ UNCHANGED <<output_dir, audio_requested>>
  /\ IF w = 1
     THEN LET m3 == change_most_recent_filepath([Machine EXCEPT !.output_dir = output_dir],
                                                writer[w].audio_filepath)
              m4 == change_entry_text(m3, "entry_audio_status",
                                      <<AUDIO_READY_MESSAGE, " ", m3.most_recent_audio_filepath>>)
          IN  /\ most_recent_audio_filepath' = m4.most_recent_audio_filepath
              /\ entry_audio_status' = m4.widgets.entry_audio_status
              /\ call' = [fn |-> "create_audio_file", args |-> [writer |-> w], raised |-> ""]
              /\ messagebox' = <<>>
              /\ UNCHANGED <<entry_plain_text_io, entry_morse_code_io, os, pycw, playsound3,
                             pyperclip>>
     ELSE UNCHANGED <<most_recent_audio_filepath, entry_plain_text_io, entry_morse_code_io,
                      entry_audio_status, messagebox, os, pycw, playsound3, pyperclip, call>>

\* except PermissionError (170-175); any other exception leaves the call.
writer_except(w) ==
  /\ writer[w].pc = "except"
  /\ writer' = [writer EXCEPT ![w].pc = "idle", ![w].raised = ""]
  /\ UNCHANGED <<output_dir, audio_requested>>
  /\ IF w = 1
     THEN /\ messagebox' = IF writer[w].raised = "PermissionError"
                           THEN show(Machine, "showerror", MESSAGEBOX_MSG_TO_MORSE_PERM_ERROR,
                                     "ok").messagebox
                           ELSE <<>>
          /\ call' = [fn |-> "create_audio_file", args |-> [writer |-> w],
                      raised |-> IF writer[w].raised = "PermissionError" THEN ""
                                 ELSE writer[w].raised]
          /\ UNCHANGED <<most_recent_audio_filepath, entry_plain_text_io, entry_morse_code_io,
                         entry_audio_status, os, pycw, playsound3, pyperclip>>
     ELSE UNCHANGED <<most_recent_audio_filepath, entry_plain_text_io, entry_morse_code_io,
                      entry_audio_status, messagebox, os, pycw, playsound3, pyperclip, call>>

NextWriters ==
  \/ \E w \in DOMAIN writer : writer_makedirs(w)
  \/ \E w \in DOMAIN writer : writer_exists(w)
  \/ \E w \in DOMAIN writer : writer_output_wave(w)
  \/ \E w \in DOMAIN writer : writer_else(w)
  \/ \E w \in DOMAIN writer : writer_except(w)

SpecWriters == InitWriters /\ [][NextWriters]_vars

(***************************************************************************)
(* What a state tells about the most recent call.                          *)
(***************************************************************************)
Shown(kind, message) ==
  \E i \in DOMAIN messagebox : messagebox[i].kind = kind /\ messagebox[i].message = message

Asked == \E i \in DOMAIN messagebox : messagebox[i].kind = "askyesno"
Declined == \E i \in DOMAIN messagebox :
              messagebox[i].kind = "askyesno" /\ messagebox[i].reply = "no"
Accepted == \E i \in DOMAIN messagebox :
              messagebox[i].kind = "askyesno" /\ messagebox[i].reply = "yes"

MeaninglessWarning ==
  [kind |-> "showwarning", message |-> MESSAGEBOX_MSG_MEANINGLESS_INPUT_WARNING, reply |-> "ok"]

\* The call was a translation that wrote its output entry.
Translated ==
  /\ call.fn \in {"translate_to_morse_code", "translate_to_plain_text"}
  /\ \A i \in DOMAIN messagebox : messagebox[i].kind # "showwarning"

\* The call reached create_audio_file, with the text AudioText.
AudioRequested ==
  \/ call.fn = "create_audio_file"
  \/ Translated /\ call.args.audio_request

AudioTextOf(c) ==
  CASE c.fn = "create_audio_file" -> c.args.normalized_text
    [] c.fn = "translate_to_morse_code" -> strip(upper(unidecode(c.args.user_plain_text)))
    [] c.fn = "translate_to_plain_text" -> plain_text(c.args.user_morse_code_text)

AudioText == AudioTextOf(call)

\* os.makedirs or pycw.output_wave raised.
RenderFailed ==
  \/ \E i \in DOMAIN os : os[i].result # "ok"
  \/ \E i \in DOMAIN pycw : pycw[i].result # "ok"

Range(s) == {s[i] : i \in DOMAIN s}

Blacklisted(c) == c \in {"~", "U+0060", "<", ">", "\\", "|", "*", "^", "%", "@", "#"}

Codewords == {MORSE_CODE_ITEMS[i][2] : i \in DOMAIN MORSE_CODE_ITEMS}

(***************************************************************************)
(* C1.  As stated: after a translation made with audio not requested, the  *)
(* most-recent-file slot and the audio status are empty.                   *)
(***************************************************************************)
C1_NoAudioClears ==
  Translated /\ ~call.args.audio_request
    => most_recent_audio_filepath = "" /\ entry_audio_status.text = <<>>

\* C1, amended: a translation made with audio not requested leaves the
\* most-recent-file slot and the audio status as they were.
C1_NoAudioKeeps ==
  [][Translated' /\ ~call'.args.audio_request
       => /\ most_recent_audio_filepath' = most_recent_audio_filepath
          /\ entry_audio_status' = entry_audio_status]_vars

C1_Witness ==
  /\ Translated /\ ~call.args.audio_request
  /\ most_recent_audio_filepath # "" /\ entry_audio_status.text # <<>>

(***************************************************************************)
(* C2.  A non-empty input of translate_to_morse_code whose Morse document  *)
(* is empty is handled as meaningless input: slot and audio status         *)
(* cleared, the meaningless-input warning shown, nothing rendered.         *)
(***************************************************************************)
MorseDocument(user_plain_text) == mcode(split(strip(upper(unidecode(user_plain_text)))))

C2_EmptyDocumentIsMeaningless ==
  /\ call.fn = "translate_to_morse_code"
  /\ call.args.user_plain_text # <<>>
  /\ MorseDocument(call.args.user_plain_text) = <<>>
  => /\ most_recent_audio_filepath = ""
     /\ entry_audio_status.text = <<>>
     /\ messagebox = <<MeaninglessWarning>>
     /\ pycw = <<>>

(***************************************************************************)
(* C3.  Round trip: for a normalized text of words of characters of        *)
(* MORSE_CODE_DICT, one space between the words, translate_to_plain_text   *)
(* on what translate_to_morse_code wrote gives the text back.              *)
(***************************************************************************)
NormalizedWords(t) ==
  /\ t # <<>>
  /\ \A i \in DOMAIN t : t[i] = " " \/ t[i] \in MORSE_CODE_KEYS
  /\ t[1] # " " /\ t[Len(t)] # " "
  /\ \A i \in 1..(Len(t) - 1) : ~(t[i] = " " /\ t[i + 1] = " ")

C3_RoundTrip ==
  call.fn = "translate_to_morse_code" /\ NormalizedWords(call.args.user_plain_text)
    => LET back == translate_to_plain_text(Machine, strip(entry_morse_code_io.text), FALSE,
                                           "entry_audio_status", "entry_plain_text_io",
                                           TRUE, NoFailure)
       IN  /\ Translated
           /\ back.messagebox = <<>>
           /\ back.widgets.entry_plain_text_io.text = call.args.user_plain_text

(***************************************************************************)
(* C4.  The Morse document translate_to_morse_code writes is the codes of  *)
(* the characters that have one, one space between the codes of a word     *)
(* and " / " between the words: a character without a code leaves nothing. *)
(***************************************************************************)
RECURSIVE NonEmpty(_)
NonEmpty(parts) ==
  IF parts = <<>> THEN <<>>
  ELSE (IF Head(parts) = <<>> THEN <<>> ELSE <<Head(parts)>>) \o NonEmpty(Tail(parts))

CodesOfMapped(word) ==
  LET mapped == SelectSeq(word, LAMBDA c : c \in MORSE_CODE_KEYS)
  IN  join(<<" ">>, [i \in DOMAIN mapped |-> MORSE_CODE_DICT[mapped[i]]])

DocumentOfMapped(user_plain_text) ==
  LET words == split(strip(upper(unidecode(user_plain_text))))
  IN  join(<<" ", "/", " ">>, NonEmpty([w \in DOMAIN words |-> CodesOfMapped(words[w])]))

C4_NoExtraSeparator ==
  /\ call.fn = "translate_to_morse_code" /\ Translated
  /\ DocumentOfMapped(call.args.user_plain_text) # <<>>
  => entry_morse_code_io.text = DocumentOfMapped(call.args.user_plain_text)

(***************************************************************************)
(* C5.  create_audio_file writes to the base path when no file is there,   *)
(* else to base_k for the least k >= 1 with no file base_k; the path names *)
(* no file that existed when the call started.                             *)
(***************************************************************************)
LeastFree(file, files) ==
  /\ file \notin files
  /\ \E k \in 0..Cardinality(files) :
       /\ file = audio_filepath(k)
       /\ \A j \in 0..(k - 1) : audio_filepath(j) \in files

C5_FirstFreeName ==
  [][\A i \in DOMAIN pycw' : LeastFree(pycw'[i].file, output_dir.files)]_vars

C5_Witness ==
  \E i \in DOMAIN pycw : pycw[i].result = "ok" /\ pycw[i].file = audio_filepath(2)

(***************************************************************************)
(* C6.  A render step that fails to write (os.makedirs or pycw.output_wave *)
(* raises, a permission failure or another I/O failure) is reported as an  *)
(* error, the call returns normally, and slot and audio status are as      *)
(* before the call.                                                        *)
(***************************************************************************)
C6_WriteFailureReported ==
  [][RenderFailed'
       => /\ call'.raised = ""
          /\ Shown("showerror", MESSAGEBOX_MSG_TO_MORSE_PERM_ERROR)'
          /\ most_recent_audio_filepath' = most_recent_audio_filepath
          /\ entry_audio_status' = entry_audio_status]_vars

(***************************************************************************)
(* C7.  Audio requested for a text with a blacklisted character: the       *)
(* confirmation is asked; when the user declines, nothing is rendered, no  *)
(* file is created, the slot is empty and the audio status blank and       *)
(* read-only.                                                              *)
(***************************************************************************)
C7_DeclineClears ==
  [][/\ AudioRequested' /\ (\E c \in Range(AudioTextOf(call')) : Blacklisted(c)) => Asked'
     /\ Declined' => /\ os' = <<>> /\ pycw' = <<>>
                     /\ output_dir' = output_dir
                     /\ most_recent_audio_filepath' = ""
                     /\ entry_audio_status' = [text |-> <<>>, state |-> "readonly"]]_vars

C7_Witness ==
  Declined /\ call.fn = "translate_to_plain_text" /\ output_dir.files # {}

(***************************************************************************)
(* C8.  When the user accepts, every blacklisted character is removed and  *)
(* the rendering goes on; no call of pycw.output_wave gets a text with a   *)
(* blacklisted character.                                                  *)
(***************************************************************************)
C8_RendererTextIsClean ==
  /\ \A i \in DOMAIN pycw : \A j \in DOMAIN pycw[i].text : ~Blacklisted(pycw[i].text[j])
  /\ Accepted => /\ os # <<>>
                 /\ \A i \in DOMAIN pycw :
                      pycw[i].text = SelectSeq(AudioText, LAMBDA c : ~Blacklisted(c))

C8_Witness ==
  /\ Accepted /\ call.fn = "translate_to_morse_code"
  /\ \E i \in DOMAIN pycw : pycw[i].result = "ok" /\ pycw[i].text # <<>>

(***************************************************************************)
(* C9.  After a successful render the slot is the path written, a file     *)
(* exists there, and the audio status is the ready message and that path;  *)
(* for create_audio_file called directly and for both translations.        *)
(***************************************************************************)
C9_RenderedIsMostRecent ==
  \A i \in DOMAIN pycw :
    pycw[i].result = "ok"
      => /\ most_recent_audio_filepath = pycw[i].file
         /\ pycw[i].file \in output_dir.files
         /\ entry_audio_status.text = <<AUDIO_READY_MESSAGE, " ", pycw[i].file>>

C9_Witness ==
  /\ call.fn = "translate_to_plain_text"
  /\ \E i \in DOMAIN pycw : pycw[i].result = "ok" /\ pycw[i].file = audio_filepath(1)

(***************************************************************************)
(* C10.  A Morse input of legal characters none of whose space-separated   *)
(* tokens is a codeword: translate_to_plain_text shows the                 *)
(* meaningless-input warning, empties the slot, blanks the audio status    *)
(* (still read-only) and renders nothing, audio requested or not.          *)
(***************************************************************************)
NoCodeword(user_morse_code_text) ==
  LET tokens == split(user_morse_code_text)
  IN  \A i \in DOMAIN tokens : tokens[i] \notin Codewords

C10_NoCodewordIsMeaningless ==
  /\ call.fn = "translate_to_plain_text"
  /\ re_fullmatch(PATT_SANITIZE_MORSE_CODE_INPUT, call.args.user_morse_code_text)
  /\ NoCodeword(call.args.user_morse_code_text)
  => /\ messagebox = <<MeaninglessWarning>>
     /\ most_recent_audio_filepath = ""
     /\ entry_audio_status = [text |-> <<>>, state |-> "readonly"]
     /\ os = <<>> /\ pycw = <<>>

C10_Witness ==
  /\ call.fn = "translate_to_plain_text"
  /\ call.args.audio_request
  /\ call.args.user_morse_code_text = <<"-", "-", "-", "-", "-", "-", "-", "-", "-", "-", "-">>
  /\ messagebox = <<MeaninglessWarning>>
  /\ output_dir.files # {}

(***************************************************************************)
(* C11.  A non-empty Morse input with a character other than ".", "-",     *)
(* "/" and space: translate_to_plain_text shows the format warning, not    *)
(* the meaningless-input one, decodes nothing and changes nothing: output  *)
(* entry, slot, audio status and output directory are as before.           *)
(***************************************************************************)
FormatWarning ==
  [kind |-> "showwarning", message |-> MESSAGEBOX_MSG_TRANSLATE_TO_PLAIN_WARNING, reply |-> "ok"]

IllegalMorse(t) == t # <<>> /\ \E i \in DOMAIN t : t[i] \notin {".", "-", "/", " "}

C11_FormatInvalidChangesNothing ==
  [][call'.fn = "translate_to_plain_text" /\ IllegalMorse(call'.args.user_morse_code_text)
       => /\ messagebox' = <<FormatWarning>>
          /\ FormatWarning # MeaninglessWarning
          /\ entry_plain_text_io' = entry_plain_text_io
          /\ entry_morse_code_io' = entry_morse_code_io
          /\ most_recent_audio_filepath' = most_recent_audio_filepath
          /\ entry_audio_status' = entry_audio_status
          /\ output_dir' = output_dir
          /\ os' = <<>> /\ pycw' = <<>>]_vars

C11_Witness ==
  /\ call.fn = "translate_to_plain_text"
  /\ call.args.user_morse_code_text = <<".", "-", " ", "x">>
  /\ call.args.audio_request
  /\ messagebox = <<FormatWarning>>
  /\ most_recent_audio_filepath # "" /\ entry_plain_text_io.text # <<>>

(***************************************************************************)
(* C12.  Either translation called with the empty string shows the         *)
(* nothing-to-translate warning (not the meaningless-input one) and        *)
(* leaves the slot, the audio status and the output entries as they were.  *)
(***************************************************************************)
NothingToTranslateWarning ==
  [kind |-> "showwarning", message |-> MESSAGEBOX_MSG_NOTHING_TO_TRANSLATE_WARNING,
   reply |-> "ok"]

EmptyInput ==
  \/ call.fn = "translate_to_morse_code" /\ call.args.user_plain_text = <<>>
  \/ call.fn = "translate_to_plain_text" /\ call.args.user_morse_code_text = <<>>

C12_EmptyInputChangesNothing ==
  [][EmptyInput'
       => /\ messagebox' = <<NothingToTranslateWarning>>
          /\ NothingToTranslateWarning # MeaninglessWarning
          /\ most_recent_audio_filepath' = most_recent_audio_filepath
          /\ entry_audio_status' = entry_audio_status
          /\ entry_plain_text_io' = entry_plain_text_io
          /\ entry_morse_code_io' = entry_morse_code_io
          /\ os' = <<>> /\ pycw' = <<>>]_vars

C12_Witness ==
  /\ EmptyInput /\ call.fn = "translate_to_plain_text"
  /\ messagebox = <<NothingToTranslateWarning>>
  /\ most_recent_audio_filepath # "" /\ entry_audio_status.text # <<>>

(***************************************************************************)
(* C13.  play_audio_file calls playsound3.playsound exactly when the audio *)
(* status passed is not empty; with an empty one it shows only the         *)
(* nothing-to-play warning; a call of playsound is the only one and its    *)
(* sound is the slot.                                                      *)
(***************************************************************************)
NothingToPlayWarning ==
  [kind |-> "showwarning", message |-> MESSAGEBOX_MSG_PLAY_WARNING, reply |-> "ok"]

C13_PlaysIffStatus ==
  call.fn = "play_audio_file"
    => /\ playsound3 # <<>> <=> call.args.audio_status # <<>>
       /\ call.args.audio_status = <<>> => messagebox = <<NothingToPlayWarning>>
       /\ call.args.audio_status # <<>>
            => /\ Len(playsound3) = 1
               /\ playsound3[1].sound = most_recent_audio_filepath
               /\ \A i \in DOMAIN messagebox : messagebox[i] # NothingToPlayWarning

C13_Witness ==
  /\ call.fn = "play_audio_file" /\ call.args.audio_status # <<>>
  /\ Len(playsound3) = 1 /\ playsound3[1].result = "ok"
  /\ playsound3[1].sound = audio_filepath(1)

(***************************************************************************)
(* C14.  A playback that raises PlaysoundException is reported with        *)
(* showerror and the text of the exception and does not leave              *)
(* play_audio_file; played, failed or nothing to play, the slot, the audio *)
(* status and the files are as before.                                     *)
(***************************************************************************)
PlaybackFailed == \E i \in DOMAIN playsound3 : playsound3[i].result # "ok"

Widgets ==
  [entry_plain_text_io |-> entry_plain_text_io,
   entry_morse_code_io |-> entry_morse_code_io,
   entry_audio_status |-> entry_audio_status]

ClearedAll == call.fn = "clear_all" /\ call.args.args # <<>>

C16_ClearAllClears ==
  [][/\ ClearedAll'
          => /\ \A i \in DOMAIN call'.args.args : Widgets'[call'.args.args[i]].text = <<>>
             /\ most_recent_audio_filepath' = ""
     /\ /\ ClearedAll
        /\ call.args.args = <<"entry_plain_text_io", "entry_morse_code_io", "entry_audio_status">>
        /\ call'.fn = "play_audio_file"
        /\ call'.args.audio_status = entry_audio_status.text
        => /\ messagebox' = <<NothingToPlayWarning>>
           /\ playsound3' = <<>>]_vars

C16_Witness ==
  /\ ClearedAll
  /\ call.args.args = <<"entry_plain_text_io", "entry_morse_code_io", "entry_audio_status">>
  /\ messagebox = <<>>
  /\ output_dir.files # {}

(***************************************************************************)
(* C17.  The slot is empty when the application starts; it gets a path     *)
(* only by a successful render of that path; it gets empty only by a       *)
(* declined confirmation, a translation with the meaningless-input         *)
(* outcome or Clear All; copy, play, typing, the checkbox, an empty or     *)
(* format-invalid input and a failed render leave it as it is.             *)
(***************************************************************************)
MeaninglessOutcome ==
  /\ call.fn \in {"translate_to_morse_code", "translate_to_plain_text"}
  /\ Shown("showwarning", MESSAGEBOX_MSG_MEANINGLESS_INPUT_WARNING)

LeavesSlot ==
  \/ call.fn \in {"copy_to_clipboard", "play_audio_file", "type", "checkbox_audio_request"}
  \/ Shown("showwarning", MESSAGEBOX_MSG_NOTHING_TO_TRANSLATE_WARNING)
  \/ Shown("showwarning", MESSAGEBOX_MSG_TRANSLATE_TO_PLAIN_WARNING)
  \/ RenderFailed

C17_SlotStateMachine ==
  /\ most_recent_audio_filepath = ""
  /\ [][/\ most_recent_audio_filepath' \notin {"", most_recent_audio_filepath}
             => \E i \in DOMAIN pycw' :
                  pycw'[i].result = "ok" /\ pycw'[i].file = most_recent_audio_filepath'
        /\ most_recent_audio_filepath # "" /\ most_recent_audio_filepath' = ""
             => Declined' \/ MeaninglessOutcome' \/ call'.fn = "clear_all"
        /\ LeavesSlot' => most_recent_audio_filepath' = most_recent_audio_filepath]_vars

C17_Witness ==
  /\ call.fn = "copy_to_clipboard"
  /\ most_recent_audio_filepath # ""
  /\ pyperclip # <<>>

(***************************************************************************)
(* C15.  A call of one of the eight functions with an argument of the      *)
(* wrong type shows one error dialog, which names the first parameter (in  *)
(* the order of the def) whose argument is wrong, and has no other effect: *)
(* entries, slot, files and clipboard are as before and nothing is         *)
(* rendered or played; clear_all with a bad argument clears no entry.      *)
(***************************************************************************)
Parameters ==
  [play_audio_file |-> <<"audio_status">>,
   change_entry_text |-> <<"entry_to_change", "change_to">>,
   change_most_recent_filepath |-> <<"change_to">>,
   create_audio_file |-> <<"normalized_text", "audio_status">>,
   translate_to_morse_code |-> <<"user_plain_text", "audio_request", "audio_status",
                                 "output_entry">>,
   translate_to_plain_text |-> <<"user_morse_code_text", "audio_request", "audio_status",
                                 "output_entry">>,
   copy_to_clipboard |-> <<"text_to_copy">>]

Annotations ==
  [play_audio_file |-> <<"str">>,
   change_entry_text |-> <<"Entry", "str">>,
   change_most_recent_filepath |-> <<"str">>,
   create_audio_file |-> <<"str", "Entry">>,
   translate_to_morse_code |-> <<"str", "bool", "Entry", "Entry">>,
   translate_to_plain_text |-> <<"str", "bool", "Entry", "Entry">>,
   copy_to_clipboard |-> <<"str">>]

\* The positions of the arguments of the call c that have the wrong type.
WrongArguments(c) ==
  IF c.fn = "clear_all"
  THEN {i \in DOMAIN c.args.types : c.args.types[i] # "Entry"}
  ELSE {i \in DOMAIN c.args.types : c.args.types[i] # Annotations[c.fn][i]}

C15_WrongTypeOnlyReported ==
  [][WrongArguments(call') # {}
       => /\ Len(messagebox') = 1
          /\ messagebox'[1].kind = "showerror"
          /\ IF call'.fn = "clear_all"
             THEN messagebox'[1].message = MESSAGEBOX_MSG_CLEAR_ALL_WRONG_ARG_ERROR
             ELSE Parameters[call'.fn][Min(WrongArguments(call'))]
                    \in Range(messagebox'[1].message)
          /\ call'.raised = ""
          /\ entry_plain_text_io' = entry_plain_text_io
          /\ entry_morse_code_io' = entry_morse_code_io
          /\ entry_audio_status' = entry_audio_status
          /\ most_recent_audio_filepath' = most_recent_audio_filepath
          /\ output_dir' = output_dir
          /\ pyperclip' = pyperclip
          /\ os' = <<>> /\ pycw' = <<>> /\ playsound3' = <<>>]_vars

(***************************************************************************)
(* C18.  MORSE_CODE_DICT has one entry for a character, every key is one   *)
(* character, every code is a non-empty string of "." and "-", no two keys *)
(* have the same code, and the dictionary translate_to_plain_text builds   *)
(* gives c back for the code of every key c; the translations decode a     *)
(* code to its key and encode a key to its code, whatever was called       *)
(* before.                                                                 *)
(***************************************************************************)
DIGITS == {"0", "1", "2", "3", "4", "5", "6", "7", "8", "9"}

\* string.punctuation without the backquote
PUNCTUATION ==
  {"!", "\"", "#", "$", "%", "&", "'", "(", ")", "*", "+", ",", "-", ".", "/", ":", ";",
   "<", "=", ">", "?", "@", "[", "\\", "]", "^", "_", "{", "|", "}", "~"}

OneCharacter(k) ==
  k \in Range(ASCII_UPPERCASE) \cup Range(ASCII_LOWERCASE) \cup DIGITS \cup PUNCTUATION

C18_TableInvertible ==
  /\ \A i \in DOMAIN MORSE_CODE_ITEMS :
       /\ OneCharacter(MORSE_CODE_ITEMS[i][1])
       /\ MORSE_CODE_ITEMS[i][2] # <<>>
       /\ Range(MORSE_CODE_ITEMS[i][2]) \subseteq {".", "-"}
       /\ \A j \in DOMAIN MORSE_CODE_ITEMS :
            \/ i = j
            \/ /\ MORSE_CODE_ITEMS[i][1] # MORSE_CODE_ITEMS[j][1]
               /\ MORSE_CODE_ITEMS[i][2] # MORSE_CODE_ITEMS[j][2]
  /\ \A c \in MORSE_CODE_KEYS :
       /\ MORSE_CODE_DICT[c] \in DOMAIN switched_morse_code_dict
       /\ switched_morse_code_dict[MORSE_CODE_DICT[c]] = c
  /\ call.fn = "translate_to_plain_text" /\ call.args.user_morse_code_text \in Codewords
       => \E c \in MORSE_CODE_KEYS :
            /\ MORSE_CODE_DICT[c] = call.args.user_morse_code_text
            /\ entry_plain_text_io.text = <<c>>
  /\ /\ call.fn = "translate_to_morse_code"
     /\ \E c \in MORSE_CODE_KEYS : call.args.user_plain_text = <<c>> /\ ~Blacklisted(c)
     => entry_morse_code_io.text = MORSE_CODE_DICT[call.args.user_plain_text[1]]

C18_Witness ==
  /\ call.fn = "translate_to_plain_text"
  /\ call.args.user_morse_code_text = <<"-", ".", ".", ".", ".", "-">>
  /\ entry_plain_text_io.text = <<"-">>

(***************************************************************************)
(* C19.  Every text the translations hand to pycw.output_wave is made of   *)
(* keys of MORSE_CODE_DICT and spaces.                                     *)
(***************************************************************************)
C19_RendererTextIsMappable ==
  call.fn \in {"translate_to_morse_code", "translate_to_plain_text"}
    => \A i \in DOMAIN pycw :
         \A c \in Range(pycw[i].text) : c = " " \/ c \in MORSE_CODE_KEYS

(***************************************************************************)
(* C20.  A translation whose mapping gives a non-empty trimmed output      *)
(* writes that output to its output entry and does not show the            *)
(* meaningless-input warning.                                              *)
(***************************************************************************)
C20_NonEmptyOutputIsWritten ==
  /\ /\ call.fn = "translate_to_morse_code"
     /\ MorseDocument(call.args.user_plain_text) # <<>>
     => /\ entry_morse_code_io.text = MorseDocument(call.args.user_plain_text)
        /\ ~Shown("showwarning", MESSAGEBOX_MSG_MEANINGLESS_INPUT_WARNING)
  /\ /\ call.fn = "translate_to_plain_text"
     /\ re_fullmatch(PATT_SANITIZE_MORSE_CODE_INPUT, call.args.user_morse_code_text)
     /\ plain_text(call.args.user_morse_code_text) # <<>>
     => /\ entry_plain_text_io.text = plain_text(call.args.user_morse_code_text)
        /\ ~Shown("showwarning", MESSAGEBOX_MSG_MEANINGLESS_INPUT_WARNING)

(***************************************************************************)
(* C21.  The Morse code translate_to_morse_code writes is the same for two *)
(* inputs that differ in the case of a letter, in white space at the start *)
(* or at the end, or in the length of a run of white space between words:  *)
(* what the call leaves in the output entry is what a call with any such   *)
(* variant of its input would have left.                                   *)
(***************************************************************************)
\* str.swapcase on one character of the model
swapcase(c) ==
  IF \E k \in DOMAIN ASCII_LOWERCASE : ASCII_LOWERCASE[k] = c
  THEN ASCII_UPPERCASE[CHOOSE k \in DOMAIN ASCII_LOWERCASE : ASCII_LOWERCASE[k] = c]
  ELSE IF \E k \in DOMAIN ASCII_UPPERCASE : ASCII_UPPERCASE[k] = c
  THEN ASCII_LOWERCASE[CHOOSE k \in DOMAIN ASCII_UPPERCASE : ASCII_UPPERCASE[k] = c]
  ELSE IF c = "U+017C" THEN "U+017B"
  ELSE c

\* The texts that differ from t in one of the ways of the claim.
Variants(t) ==
  {[t EXCEPT ![i] = swapcase(t[i])] : i \in DOMAIN t}
    \cup {[i \in DOMAIN t |-> swapcase(t[i])]}
    \cup {<<w>> \o t : w \in WHITESPACE}
    \cup {t \o <<w>> : w \in WHITESPACE}
    \cup {SubSeq(t, 1, i) \o <<w>> \o SubSeq(t, i + 1, Len(t)) :
            i \in {j \in 2..(Len(t) - 1) : t[j] \in WHITESPACE}, w \in WHITESPACE}

C21_SameNormalFormSameMorse ==
  /\ MorseDocument(<<" ", "2", " ", "S", "e", "A", "s">>)
       = <<".", ".", "-", "-", "-", " ", "/", " ", ".", ".", ".", " ", ".", " ", ".", "-",
           " ", ".", ".", ".">>
  /\ MorseDocument(<<"2", " ", "S", "E", "A", "S">>)
       = MorseDocument(<<" ", "2", " ", "S", "e", "A", "s">>)
  /\ [][call'.fn = "translate_to_morse_code" /\ call'.args.user_plain_text # <<>>
       => \A v \in Variants(call'.args.user_plain_text) :
            /\ entry_morse_code_io' =
                 translate_to_morse_code(Machine, v, FALSE, "entry_audio_status",
                                         "entry_morse_code_io", TRUE,
                                         NoFailure).widgets.entry_morse_code_io
            /\ MorseDocument(v) = MorseDocument(call'.args.user_plain_text)]_vars

C21_Witness ==
  /\ call.fn = "translate_to_morse_code"
  /\ call.args.user_plain_text = <<"e", " ", "T">>
  /\ entry_morse_code_io.text = <<".", " ", "/", " ", "-">>
  /\ MorseDocument(<<" ", "E", "\t", " ", "t">>) = entry_morse_code_io.text

(***************************************************************************)
(* C22.  For an input of legal characters, translate_to_plain_text leaves  *)
(* what it would leave for the same input with every run of spaces made    *)
(* one space; the collapsing leaves every "/" in its place.                *)
(***************************************************************************)
\* t with every run of spaces made one space
RECURSIVE SingleSpaced(_)
SingleSpaced(t) ==
  IF Len(t) < 2 THEN t
  ELSE IF t[1] = " " /\ t[2] = " " THEN SingleSpaced(Tail(t))
  ELSE <<Head(t)>> \o SingleSpaced(Tail(t))

Slashes(t) == Len(SelectSeq(t, LAMBDA c : c = "/"))

C22_SpaceRunsAreOneSpace ==
  [][/\ call'.fn = "translate_to_plain_text"
     /\ re_fullmatch(PATT_SANITIZE_MORSE_CODE_INPUT, call'.args.user_morse_code_text)
     => LET t == call'.args.user_morse_code_text
            raw == entry_morse_code_io.text
            single == translate_to_plain_text(Machine, SingleSpaced(t), FALSE,
                                              "entry_audio_status", "entry_plain_text_io",
                                              TRUE, NoFailure)
        IN  /\ entry_plain_text_io' = single.widgets.entry_plain_text_io
            /\ messagebox' = single.messagebox
            /\ plain_text(raw) = plain_text(SingleSpaced(raw))
            /\ PATT_REDUCE_SPACES_MORSE_CODE_INPUT(raw) = SingleSpaced(raw)
            /\ Slashes(PATT_REDUCE_SPACES_MORSE_CODE_INPUT(raw)) = Slashes(raw)]_vars

C22_Witness ==
  /\ call.fn = "translate_to_plain_text"
  /\ call.args.user_morse_code_text = <<".", " ", " ", "/", " ", "-">>
  /\ entry_plain_text_io.text = <<"E", " ", "T">>

(***************************************************************************)
(* C23.  A writer that is alone on the output directory never writes over  *)
(* a file: the path it is about to write names no file.  A writer writes   *)
(* over a file only when another writer wrote that path between its test   *)
(* os.path.exists and its pycw.output_wave; with two writers that happens  *)
(* (C23_Witness).                                                          *)
(***************************************************************************)
C23_CheckThenCreate ==
  \A w \in DOMAIN writer :
    /\ Len(writer) = 1
         => /\ ~writer[w].overwrote
            /\ writer[w].pc = "output_wave" => writer[w].audio_filepath \notin output_dir.files
    /\ writer[w].overwrote
         => \E v \in DOMAIN writer \ {w} : writer[w].audio_filepath \in writer[v].written

\* Both writers found the same path free and both wrote it.
C23_Witness ==
  /\ Len(writer) = 2
  /\ writer[1].pc = "else" /\ writer[2].pc = "else"
  /\ writer[1].audio_filepath = writer[2].audio_filepath
  /\ writer[1].overwrote \/ writer[2].overwrote

C25_StatusIffSlot ==
  /\ entry_audio_status.text # <<>> <=> most_recent_audio_filepath # ""
  /\ most_recent_audio_filepath # ""
       => entry_audio_status.text = <<AUDIO_READY_MESSAGE, " ", most_recent_audio_filepath>>
  /\ \A i \in DOMAIN playsound3 : playsound3[i].sound # ""

C25_Witness ==
  /\ call.fn = "play_audio_file"
  /\ Len(playsound3) = 1
  /\ playsound3[1].sound = most_recent_audio_filepath
  /\ entry_audio_status.text = <<AUDIO_READY_MESSAGE, " ", audio_filepath(1)>>

(***************************************************************************)
(* C26.  A non-empty Morse code that translate_to_morse_code writes to its *)
(* output entry has no character but ".", "-", "/" and the space, and      *)
(* translate_to_plain_text, given that text as it is, does not show the    *)
(* warning about illegal characters.                                       *)
(***************************************************************************)
C26_WrittenMorseIsLegalInput ==
  /\ call.fn = "translate_to_morse_code" /\ Translated
  /\ entry_morse_code_io.text # <<>>
  => /\ Range(entry_morse_code_io.text) \subseteq {".", "-", "/", " "}
     /\ re_fullmatch(PATT_SANITIZE_MORSE_CODE_INPUT, entry_morse_code_io.text)
     /\ \A i \in DOMAIN translate_to_plain_text(Machine, entry_morse_code_io.text, FALSE,
                                              "entry_audio_status", "entry_plain_text_io",
                                              TRUE, NoFailure).messagebox :
          translate_to_plain_text(Machine, entry_morse_code_io.text, FALSE,
                                  "entry_audio_status", "entry_plain_text_io",
                                  TRUE, NoFailure).messagebox[i].message
            # MESSAGEBOX_MSG_TRANSLATE_TO_PLAIN_WARNING

C26_Witness ==
  /\ call.fn = "translate_to_morse_code" /\ Translated
  /\ call.args.user_plain_text = <<"e", "[", "T">>
  /\ entry_morse_code_io.text = <<".", " ", " ", "-">>

(***************************************************************************)
(* C27.  Every text a translation hands to pycw.output_wave has a          *)
(* character that is not white space.                                      *)
(***************************************************************************)
C27_RendererTextNotBlank ==
  call.fn \in {"translate_to_morse_code", "translate_to_plain_text"}
    => \A i \in DOMAIN pycw : \E c \in Range(pycw[i].text) : c \notin WHITESPACE

(***************************************************************************)
(* C28.  As stated: when the slot holds a path after a translation that    *)
(* wrote its output entry, that translation rendered the file of that      *)
(* path.                                                                   *)
(***************************************************************************)
RenderedFile ==
  IF \E i \in DOMAIN pycw : pycw[i].result = "ok"
  THEN pycw[CHOOSE i \in DOMAIN pycw : pycw[i].result = "ok"].file
  ELSE ""

C28_SlotRenderedBySameTranslation ==
  Translated /\ most_recent_audio_filepath # "" => RenderedFile = most_recent_audio_filepath

(***************************************************************************)
(* C28, amended.  After a translation that wrote its output entry the slot *)
(* holds the file that translation rendered if its render succeeded, is    *)
(* empty if the user declined the confirmation, and otherwise (no audio    *)
(* requested, or the render failed) holds what it held before the call,    *)
(* which may be the file of an earlier translation; Play plays the file of *)
(* the slot.                                                               *)
(***************************************************************************)
C28_SlotRenderedOrDeclinedOrKept ==
  [][/\ Translated'
        => IF RenderedFile' # "" THEN /\ most_recent_audio_filepath' = RenderedFile'
                                      /\ RenderedFile' \notin output_dir.files
           ELSE IF Declined' THEN most_recent_audio_filepath' = ""
           ELSE most_recent_audio_filepath' = most_recent_audio_filepath
     /\ \A i \in DOMAIN playsound3' : playsound3'[i].sound = most_recent_audio_filepath]_vars

\* A translation without audio wrote its output entry and the slot still
\* holds the file of an earlier render.
C28_Witness ==
  /\ Translated /\ ~call.args.audio_request
  /\ call.fn = "translate_to_plain_text"
  /\ entry_plain_text_io.text = <<"E">>
  /\ pycw = <<>>
  /\ most_recent_audio_filepath = audio_filepath(0)
  /\ entry_morse_code_io.text = <<".">>

(***************************************************************************)
(* C29.  A non-empty text that translate_to_plain_text writes to its       *)
(* output entry starts and ends with a character that is not a space, has  *)
(* no two spaces in a row, and is the decoded words that are not empty,    *)
(* one space between them.                                                 *)
(***************************************************************************)
\* The decoded words of a Morse code, the empty ones left out.
DecodedWords(user_morse_code_text) ==
  LET words == split_sep(PATT_REDUCE_SPACES_MORSE_CODE_INPUT(user_morse_code_text),
                         <<" ", "/", " ">>)
      decoded(word) ==
        SelectSeq([i \in DOMAIN split(word) |->
                     IF split(word)[i] \in DOMAIN switched_morse_code_dict
                     THEN switched_morse_code_dict[split(word)[i]] ELSE ""],
                  LAMBDA c : c # "")
  IN  NonEmpty([w \in DOMAIN words |-> decoded(words[w])])

C29_PlainTextSingleSpaced ==
  /\ call.fn = "translate_to_plain_text" /\ Translated
  /\ entry_plain_text_io.text # <<>>
  => LET text == entry_plain_text_io.text
     IN  /\ text[1] # " " /\ text[Len(text)] # " "
         /\ \A i \in 1..(Len(text) - 1) : ~(text[i] = " " /\ text[i + 1] = " ")
         /\ text = join(<<" ">>, DecodedWords(call.args.user_morse_code_text))

(***************************************************************************)
(* C30.  In a session that starts without audio files, no step removes a   *)
(* file or writes over one; a step whose render succeeds adds one file,    *)
(* named by the base name if it is the first of the session and by         *)
(* base_(n-1) if it is the n-th; any other step leaves the files as they   *)
(* are.                                                                    *)
(***************************************************************************)
C30_RendersNumberTheFiles ==
  /\ output_dir.files = {}
  /\ [][LET n == Cardinality(output_dir.files) + 1
        IN  /\ output_dir.files \subseteq output_dir'.files
            /\ IF RenderedFile' # ""
               THEN /\ RenderedFile' = audio_filepath(n - 1)
                    /\ RenderedFile' \notin output_dir.files
                    /\ output_dir'.files = output_dir.files \cup {RenderedFile'}
                    /\ Len(pycw') = 1
               ELSE output_dir'.files = output_dir.files
            /\ output_dir'.files = {audio_filepath(k) : k \in 0..(Cardinality(output_dir'.files) - 1)}
            /\ audio_filepath(0) = "output/morse_code_audio.wav"
            /\ audio_filepath(1) = "output/morse_code_audio_1.wav"]_vars

\* The third render of a session, made after a clear, a play and a copy.
C30_Witness ==
  /\ output_dir.files = {audio_filepath(0), audio_filepath(1), audio_filepath(2)}
  /\ RenderedFile = audio_filepath(2)
  /\ pyperclip # <<>>

====
